---- MODULE Spec2Model ----
(***************************************************************************)
(* Browser <-> voice-agent bridges of baseline-intake.                     *)
(*                                                                         *)
(* One connection of one bridge variant is modelled per behaviour; the     *)
(* variable `bridge` says which:                                           *)
(*   "live" setupWebDemoLive  of src/lib/web-demo-live.cjs                 *)
(*   "js"   setupWebDemoLive  of src/index.js                              *)
(*   "vb"   createVoiceBridge of src/unnamed/part_012                      *)
(*   "cjs"  createVoiceBridge of src/index.cjs                             *)
(* The variants keep the same per-connection state under the same names    *)
(* (settingsSent, settingsApplied, preFrames, micBuf), so they share the   *)
(* variables; every handler of a variant is one action.                    *)
(*                                                                         *)
(* A Buffer is modelled as a view [off, len] on the stream of bytes the    *)
(* bridge has accepted from the client, as Buffer.subarray makes them.     *)
(* upstream.send may throw (every call is wrapped in try/catch): a send    *)
(* that throws puts nothing on the wire.                                   *)
(***************************************************************************)
EXTENDS Integers, Sequences, FiniteSets, TLC

VARIABLES
    bridge,          \* which bridge variant this connection runs
    hasKey,          \* the API credential is configured
    upState,         \* upstream.readyState: NONE (never created), CONNECTING, OPEN, CLOSING, CLOSED
    clientState,     \* client socket: OPEN, CLOSING, CLOSED
    settingsSent,    \* let settingsSent / readyForAudio's companion
    settingsApplied, \* let settingsApplied (readyForAudio in src/index.cjs)
    closed,          \* let closed (safeClose guard)
    preFrames,       \* const preFrames = []
    micBuf,          \* let micBuf = Buffer.alloc(0)
    pingTimer,       \* keepalive interval timer is set
    upWire,          \* what upstream.send has put on the upstream socket, in order
    clientOut,       \* what the last handler sent to the client, in order
    upCloseCalls,    \* invocations of upstream.close
    clientCloseCalls,\* invocations of client.close / terminate
    nClientMsgs,     \* client messages delivered so far
    nUpMsgs,         \* upstream messages delivered so far
    nThrows,         \* handler runs in which upstream.send threw
    rxBytes,         \* bytes of client binary messages delivered while upstream was OPEN
    lostBytes,       \* bytes of client binary messages the handler returned on without buffering
    nFrames,         \* frames sliced off micBuf so far
    pushedLog,       \* frames pushed to preFrames since it was last cleared
    lastDrain,       \* the last preroll drain: what was queued, what was sent
    nClientErrors,   \* 'error' messages the client has received so far
    textBufs,        \* the parts of the accepted byte stream that came from client text messages
    intake,          \* const intake = makeShadowIntake() / makeIntakeState()
    logged,          \* the intake_complete and intake_final records logged so far, in order
    isAlive,         \* ws.isAlive of the client socket (heartbeat of part_012)
    unansweredPings, \* heartbeat pings sent to the client since its last pong
    nCalls,          \* invocations of updateIntakeFromUserText so far
    lastIn,          \* input of the last transcript event or updateIntakeFromUserText call
    allowMicToDG,    \* let allowMicToDG (part_008): the mic gate is open
    speaking,        \* let speaking (part_008): the JavaScript value false, 0 or true
    lastTtsAt,       \* let lastTtsAt (part_008): never (0), recent (under 300 ms ago), stale
    silenceTimer,    \* the silence pump's interval timer is set
    stateTimer,      \* the state timer (100 ms) is set
    meter,           \* the throughput meter's interval timer is set
    voiceId,         \* let voiceId (part_008)
    startVoices,     \* the voiceIds of the 'start' messages the handler has parsed
    greetingEnded,   \* speaking went from true to not speaking since the last SettingsApplied
    upEvents,        \* upstream events seen: unexpected-response, error, SettingsApplied,
                     \* BinaryAfterSettings (a binary message taken as the acknowledgment)
    lastEvt          \* the event whose handler ran last

vars == << bridge, hasKey, upState, clientState, settingsSent, settingsApplied, closed,
           preFrames, micBuf, pingTimer, upWire, clientOut, upCloseCalls,
           clientCloseCalls, nClientMsgs, nUpMsgs, nThrows, rxBytes, lostBytes,
           nFrames, pushedLog, lastDrain, nClientErrors, textBufs, intake, logged,
           isAlive, unansweredPings, nCalls, lastIn, allowMicToDG, speaking, lastTtsAt,
           silenceTimer, stateTimer, meter, voiceId, startVoices, greetingEnded,
           upEvents, lastEvt >>

\* the state of the shadow intake, of its log records and of the heartbeat
sessionVars == << intake, logged, isAlive, unansweredPings, nCalls, lastIn >>

\* the state only the greeting-gated bridge of part_008 has
gateVars == << allowMicToDG, speaking, lastTtsAt, silenceTimer, stateTimer, meter,
              voiceId, startVoices, greetingEnded >>

(* ------------------------------ bounds -------------------------------- *)
MaxClientMsgs == 2
MaxUpMsgs == 2
MaxThrows == 1
MaxCalls == 4      \* updateIntakeFromUserText calls with a freely chosen utterance
MaxFillers == 27   \* length of the stream of distinct utterances
MaxRepeats == 2    \* repetitions of an earlier utterance of the stream
MaxTranscripts == 4 \* transcript events of a connection of createVoiceBridge
MaxTicks == 2      \* keepalive messages sent on a connection

(* --------------------------- program constants ------------------------ *)
FRAME_MS == 20
IN_RATE == 16000
BYTES_PER_FRAME == (IN_RATE * 2 * FRAME_MS) \div 1000
MAX_PRE_FRAMES == 200

\* Sizes of the client's binary messages: two parts of one frame, one frame,
\* and a burst that fills the preroll queue.
ChunkSizes == {300, 340, 640, MAX_PRE_FRAMES * BYTES_PER_FRAME}

\* Byte lengths of the client's text messages
TextSizes == {300}

\* How the ws build hands a text frame to a 'message' listener: as a string
\* (ws before 8) or as a Buffer with isBinary = false (ws 8 and later)
TextAsString == BOOLEAN

(* ------------------------------ buffers ------------------------------- *)
Buf(off, len) == [off |-> off, len |-> len]

\* Buffer.concat([a, b]) where b holds the bytes that follow a's
Concat(a, b) == [off |-> a.off, len |-> a.len + b.len]

\* buf.subarray(start, end)
Subarray(b, start, end) ==
    LET s == IF start > b.len THEN b.len ELSE start
        e == IF end > b.len THEN b.len ELSE end
    IN  [off |-> b.off + s, len |-> IF e > s THEN e - s ELSE 0]

Settings == [kind |-> "Settings", off |-> 0, len |-> 0]
Audio(fr) == [kind |-> "audio", off |-> fr.off, len |-> fr.len]

NoDrain == [queued |-> << >>, pushed |-> << >>, sent |-> << >>, threw |-> FALSE,
            settingsSent |-> FALSE]

\* Variant of PrerollPush without the shift: the queue grows without bound
PrerollPush_NoShift(q, frame) == Append(q, frame)

\* Variant of PrerollPush that refuses the new frame when the queue is full
PrerollPush_DropNewest(q, frame) ==
    IF Len(q) >= MAX_PRE_FRAMES THEN q ELSE Append(q, frame)

\* preFrames.push(frame); if (preFrames.length > MAX_PRE_FRAMES) preFrames.shift();
PrerollPush(q, frame) ==
    LET q1 == Append(q, frame)
    IN  IF Len(q1) > MAX_PRE_FRAMES THEN Tail(q1) ELSE q1

\* Variant of DrainSends that walks the queue from its tail
DrainSends_Reversed(q, okCount) ==
    [i \in 1..(IF okCount < Len(q) THEN okCount ELSE Len(q)) |-> Audio(q[Len(q) + 1 - i])]

\* try { for (const fr of preFrames) upstream.send(fr); } catch {}
\* okCount sends succeed, the next one (if any) throws and ends the loop.
DrainSends(q, okCount) ==
    [i \in 1..(IF okCount < Len(q) THEN okCount ELSE Len(q)) |-> Audio(q[i])]

\* Variant of FrameStep without the readiness test: every frame is sent at once
FrameStep_AlwaysLive(s, ready) ==
    [s EXCEPT !.micBuf = Subarray(s.micBuf, BYTES_PER_FRAME, s.micBuf.len),
              !.live = Append(@, Subarray(s.micBuf, 0, BYTES_PER_FRAME)),
              !.n = @ + 1]

\* Variant of FrameStep that empties micBuf instead of keeping the residual
FrameStep_DropsResidual(s, ready) ==
    LET frame == Subarray(s.micBuf, 0, BYTES_PER_FRAME)
        rest == Buf(s.micBuf.off + s.micBuf.len, 0)
    IN  IF ~ready
        THEN [s EXCEPT !.micBuf = rest,
                       !.preFrames = PrerollPush(@, frame),
                       !.pushed = Append(@, frame),
                       !.n = @ + 1]
        ELSE [s EXCEPT !.micBuf = rest,
                       !.live = Append(@, frame),
                       !.n = @ + 1]

\* Variant of FrameStep that queues every frame, and also sends it when ready
FrameStep_AlwaysQueues(s, ready) ==
    LET frame == Subarray(s.micBuf, 0, BYTES_PER_FRAME)
        rest == Subarray(s.micBuf, BYTES_PER_FRAME, s.micBuf.len)
        q == [s EXCEPT !.micBuf = rest,
                       !.preFrames = PrerollPush(@, frame),
                       !.pushed = Append(@, frame),
                       !.n = @ + 1]
    IN  IF ~ready THEN q ELSE [q EXCEPT !.live = Append(@, frame)]

\* One pass of the body of  while (micBuf.length >= BYTES_PER_FRAME) { ... }
\* s: [micBuf, preFrames, pushed, live, n]; ready = settingsSent && settingsApplied;
\* live collects the frames handed to upstream.send, n counts the frames sliced.
FrameStep(s, ready) ==
    LET frame == Subarray(s.micBuf, 0, BYTES_PER_FRAME)
        rest == Subarray(s.micBuf, BYTES_PER_FRAME, s.micBuf.len)
    IN  IF ~ready
        THEN [s EXCEPT !.micBuf = rest,
                       !.preFrames = PrerollPush(@, frame),
                       !.pushed = Append(@, frame),
                       !.n = @ + 1]
        ELSE [s EXCEPT !.micBuf = rest,
                       !.live = Append(@, frame),
                       !.n = @ + 1]

\* The while loop, run for at most `fuel` passes (the callers give it more
\* fuel than the buffer has bytes); the passes are split in halves to keep
\* the evaluation shallow.
RECURSIVE FrameLoop(_, _, _)
FrameLoop(s, ready, fuel) ==
    IF fuel = 0 \/ ~(s.micBuf.len >= BYTES_PER_FRAME) THEN s
    ELSE IF fuel = 1 THEN FrameStep(s, ready)
    ELSE FrameLoop(FrameLoop(s, ready, fuel \div 2), ready, fuel - (fuel \div 2))

(* ------------------------- environment choices ------------------------ *)
\* Outcomes of one upstream.send: "ok" puts the message on the wire; "throw"
\* raises; "dropped" returns normally with nothing sent (a socket that is
\* no longer OPEN).
SendOutcomes(readyState) ==
    (IF readyState = "OPEN" THEN {"ok"} ELSE {"dropped"})
    \cup (IF nThrows < MaxThrows THEN {"throw"} ELSE {})

\* The upstream is the voice-agent service: it acknowledges (SettingsApplied)
\* only a Settings message it has received.
UpstreamHasSettings == \E i \in DOMAIN upWire : upWire[i].kind = "Settings"

\* client.send reaches the client only while its socket is open
ToClient(msgs) == IF clientState = "OPEN" THEN msgs ELSE << >>

\* The client's count of 'error' messages after a handler that sent it clientOut'
CountClientErrors ==
    nClientErrors' = nClientErrors
                       + Cardinality({i \in DOMAIN clientOut' : clientOut'[i] = "error"})

\* socket.close() / terminate() on a socket in state st starts its closing
CloseCalledOn(st) == IF st \in {"CONNECTING", "OPEN"} THEN "CLOSING" ELSE st

\* client.close(code, reason)
ClientCloseCalled == IF clientState = "OPEN" THEN "CLOSING" ELSE clientState

\* upstream.close(1000)
UpstreamCloseCalled ==
    IF upState \in {"CONNECTING", "OPEN"} THEN "CLOSING" ELSE upState

(* ============================ shadow intake ============================ *)
(* An utterance is its trimmed text. The extraction functions are regular  *)
(* expressions over the text; each is modelled by its value on the texts   *)
(* below, evaluated by hand from the expression.                           *)

null == "null"

\* JavaScript truthiness of a field value (a string or null)
Truthy(v) == v # null /\ v # ""

U_PhoneA == "my phone is 555-111-2222"
U_PhoneB == "call me at 555-333-4444"
U_Email == "my email is ann@x.io"
U_Accident == "i was in a car accident yesterday in Austin, TX"
U_Name == "my name is John Smith"
U_NameB == "this is Mary Jones"
U_Existing == "existing client here"
U_JordanName == "My name is Jordan Smith"
U_JordanPhone == "my phone is 555-123-4567"

\* the n-th of a stream of short utterances no extraction matches
Filler(n) == "okay " \o ToString(n)

\* Utterances that carry information, and the empty one
Utterances ==
    {"", U_PhoneA, U_PhoneB, U_Email, U_Accident, U_Name, U_NameB, U_Existing}

\* The utterances of a short dialogue: a name, a telephone number, an
\* electronic address and the account of the incident
DialogueUtterances == {U_JordanName, U_JordanPhone, U_Email, U_Accident}

\* text.split(/\s+/).length
Words(u) ==
    CASE u = "" -> 1
      [] u = U_Accident -> 10
      [] u \in {U_Name, U_JordanName} -> 5
      [] u \in {U_PhoneA, U_PhoneB, U_Email, U_NameB, U_JordanPhone} -> 4
      [] u = U_Existing -> 3
      [] OTHER -> 2

(* ---- updateIntakeFromUserText of lib/shadow-intake.cjs as embedded in   *)
(* ---- src/app/page.tsx (used by part_012 and by setupTwilioBridge)       *)

RECENT_MAX == 25

makeIntakeState ==
    [client_type |-> null, full_name |-> null, phone |-> null, email |-> null,
     incident |-> null, date |-> null, location |-> null,
     transcripts |-> << >>, recentUtterances |-> << >>, completeLogged |-> FALSE]

extractClientType(t) ==
    CASE t = U_Existing -> "existing"
      [] t = U_Accident -> "new"
      [] OTHER -> null

extractFullName(t) ==
    CASE t = U_Name -> "John Smith"
      [] t = U_JordanName -> "Jordan Smith"
      [] t = U_NameB -> "Mary Jones"
      [] OTHER -> null

\* the digits of the text, when they end in ten digits; the reformatting
\* replace() needs eleven digits and leaves ten as they are
extractPhone(t) ==
    CASE t = U_PhoneA -> "5551112222"
      [] t = U_JordanPhone -> "5551234567"
      [] t = U_PhoneB -> "5553334444"
      [] OTHER -> null

extractEmail(t) == IF t = U_Email THEN "ann@x.io" ELSE null

extractDate(t) == IF t = U_Accident THEN "yesterday" ELSE null

extractLocation(t) == IF t = U_Accident THEN "Austin, TX" ELSE null

looksIncidenty(t) == t = U_Accident

isComplete(rec) ==
    /\ Truthy(rec.client_type) /\ Truthy(rec.full_name)
    /\ (Truthy(rec.phone) \/ Truthy(rec.email))
    /\ Truthy(rec.incident) /\ Truthy(rec.date) /\ Truthy(rec.location)

\* Variant of maybe that clears a field when a later extraction disagrees
maybe_ClearsOnConflict(rec, label, val) ==
    IF ~Truthy(val) THEN rec
    ELSE IF ~Truthy(rec[label]) THEN [rec EXCEPT ![label] = val]
    ELSE IF rec[label] # val THEN [rec EXCEPT ![label] = null]
    ELSE rec

\* Variant of maybe in which the last extraction wins
maybe_Overwrites(rec, label, val) ==
    IF Truthy(val) THEN [rec EXCEPT ![label] = val] ELSE rec

\* const maybe = (label, val) => { if (val && !intake[label]) intake[label] = val }
maybe(rec, label, val) ==
    IF Truthy(val) /\ ~Truthy(rec[label]) THEN [rec EXCEPT ![label] = val] ELSE rec

\* Variant of PushRecent that keeps one utterance fewer
PushRecent_ShortWindow(recent, incoming) ==
    LET r == Append(recent, incoming)
    IN  IF Len(r) >= RECENT_MAX THEN Tail(r) ELSE r

\* recent.push(incoming); if (recent.length > 25) recent.shift();
PushRecent(recent, incoming) ==
    LET r == Append(recent, incoming)
    IN  IF Len(r) > RECENT_MAX THEN Tail(r) ELSE r

\* updateIntakeFromUserText(intake, text), text already trimmed
updateIntakeFromUserText(rec, incoming) ==
    IF incoming = "" THEN rec
    ELSE IF \E i \in DOMAIN rec.recentUtterances : rec.recentUtterances[i] = incoming
    THEN rec
    ELSE
      LET r0 == [rec EXCEPT !.recentUtterances = PushRecent(@, incoming),
                            !.transcripts = Append(@, incoming)]
          r1 == maybe(r0, "client_type", extractClientType(incoming))
          r2 == maybe(r1, "full_name", extractFullName(incoming))
          r3 == maybe(r2, "phone", extractPhone(incoming))
          r4 == maybe(r3, "email", extractEmail(incoming))
          r5 == maybe(r4, "date", extractDate(incoming))
          r6 == maybe(r5, "location", extractLocation(incoming))
      IN  IF ~Truthy(r6.incident) /\ (looksIncidenty(incoming) \/ Words(incoming) >= 6)
          THEN [r6 EXCEPT !.incident = incoming]
          ELSE r6

(* ---- updateIntakeFromUserText of src/lib/shadow-intake.cjs (index.js) -- *)

makeShadowIntake ==
    [kind |-> null, name |-> null, phone |-> null, email |-> null, happened |-> null,
     when |-> null, city |-> null, state |-> null, notes |-> << >>]

\* the two kind tests, in the order of the code: the second overwrites the first
Shadow_kind(t) ==
    CASE t = U_Accident -> "accident"
      [] t = U_Existing -> "existing"
      [] OTHER -> null

Shadow_phone(t) ==
    CASE t = U_PhoneA -> "555-111-2222"
      [] t = U_JordanPhone -> "555-123-4567"
      [] t = U_PhoneB -> "555-333-4444"
      [] OTHER -> null

Shadow_email(t) == IF t = U_Email THEN "ann@x.io" ELSE null

\* t.match(/\b([A-Za-z][A-Za-z\s]+),\s*([A-Za-z]{2})\b/): the first group takes
\* every letter and blank before the comma
Shadow_city(t) ==
    IF t = U_Accident THEN "i was in a car accident yesterday in Austin" ELSE null

Shadow_state(t) == IF t = U_Accident THEN "TX" ELSE null

Shadow_when(t) == IF t = U_Accident THEN "yesterday" ELSE null

\* the expression has no i flag: 'My name is' with a capital M does not match
Shadow_name(t) ==
    CASE t = U_Name -> "John Smith"
      [] t = U_JordanName -> null
      [] t = U_NameB -> "Mary Jones"
      [] OTHER -> null

\* updateIntakeFromUserText(intake, text) of src/lib/shadow-intake.cjs
Shadow_updateIntakeFromUserText(rec, t) ==
    LET r1 == maybe(rec, "kind", Shadow_kind(t))
        r2 == maybe(r1, "phone", Shadow_phone(t))
        r3 == maybe(r2, "email", Shadow_email(t))
        r4 == maybe(maybe(r3, "city", Shadow_city(t)), "state", Shadow_state(t))
        r5 == maybe(r4, "when", Shadow_when(t))
        r6 == maybe(r5, "name", Shadow_name(t))
    IN  IF t # "" THEN [r6 EXCEPT !.notes = Append(@, t)] ELSE r6

\* the intake record a connection of the bridge starts with
NewIntake(b) == IF b = "js" THEN makeShadowIntake ELSE makeIntakeState

\* the input recorded before any event
NoInput == [utt |-> "", role |-> << >>, final |-> FALSE]

(* ------------------------------- Init --------------------------------- *)
\* The state after construction, for a connection of one of the bridges B
InitBridge(B) ==
    /\ bridge \in B
    /\ hasKey \in BOOLEAN
    /\ upState = "NONE"
    /\ clientState = "OPEN"
    /\ settingsSent = FALSE
    /\ settingsApplied = FALSE
    /\ closed = FALSE
    /\ preFrames = << >>
    /\ micBuf = Buf(0, 0)
    /\ pingTimer = FALSE
    /\ upWire = << >>
    /\ clientOut = << >>
    /\ upCloseCalls = 0
    /\ clientCloseCalls = 0
    /\ nClientMsgs = 0
    /\ nUpMsgs = 0
    /\ nThrows = 0
    /\ rxBytes = 0
    /\ lostBytes = 0
    /\ nFrames = 0
    /\ pushedLog = << >>
    /\ lastDrain = NoDrain
    /\ nClientErrors = 0
    /\ textBufs = {}
    /\ intake = NewIntake(bridge)
    /\ logged = << >>
    /\ isAlive = TRUE
    /\ unansweredPings = 0
    /\ nCalls = 0
    /\ lastIn = NoInput
    /\ allowMicToDG = FALSE
    /\ speaking = "false"
    /\ lastTtsAt = "never"
    /\ silenceTimer = FALSE
    /\ stateTimer = FALSE
    /\ meter = FALSE
    /\ voiceId = 2
    /\ startVoices = {}
    /\ greetingEnded = FALSE
    /\ upEvents = {}
    /\ lastEvt = "none"

(* ------------- updateIntakeFromUserText called on its own -------------- *)

BridgeUnchanged ==
    UNCHANGED << bridge, hasKey, upState, clientState, settingsSent, settingsApplied,
                 closed, preFrames, micBuf, pingTimer, upWire, upCloseCalls,
                 clientCloseCalls, nClientMsgs, nUpMsgs, nThrows, rxBytes, lostBytes,
                 nFrames, pushedLog, lastDrain, nClientErrors, textBufs, upEvents >>
    /\ UNCHANGED gateVars

\* one call updateIntakeFromUserText(intake, u) of the connection's intake module
Intake_Ingest(u) ==
    /\ lastEvt' = "updateIntake"
    /\ lastIn' = [utt |-> u, role |-> << >>, final |-> TRUE]
    /\ nCalls' = nCalls + 1
    /\ intake' = IF bridge = "js" THEN Shadow_updateIntakeFromUserText(intake, u)
                 ELSE updateIntakeFromUserText(intake, u)
    /\ clientOut' = << >>
    /\ UNCHANGED << logged, isAlive, unansweredPings >>
    /\ BridgeUnchanged

\* a call with any of the utterances that carry information
Intake_Call ==
    /\ bridge \in {"js", "vb"}
    /\ nCalls < MaxCalls
    /\ \E u \in Utterances : Intake_Ingest(u)

\* a call with one of the utterances of the short dialogue
Intake_Dialogue ==
    /\ bridge \in {"js", "vb"}
    /\ nCalls < MaxCalls
    /\ \E u \in DialogueUtterances : Intake_Ingest(u)

\* The utterances of the stream processed so far
Processed == {intake.transcripts[i] : i \in DOMAIN intake.transcripts}

\* a call with the next utterance of the stream
Intake_Next ==
    /\ bridge = "vb"
    /\ Cardinality(Processed) < MaxFillers
    /\ Intake_Ingest(Filler(Cardinality(Processed) + 1))

\* a call that repeats an earlier utterance: the newest one processed, the
\* 25th newest or the 26th newest
Intake_Repeat ==
    /\ bridge = "vb"
    /\ nCalls - Cardinality(Processed) < MaxRepeats
    /\ \E back \in {0, RECENT_MAX - 1, RECENT_MAX} :
         /\ back < Len(intake.transcripts)
         /\ Intake_Ingest(intake.transcripts[Len(intake.transcripts) - back])

\* Calls of updateIntakeFromUserText of either module, utterances freely chosen
SpecIntake == InitBridge({"js", "vb"}) /\ [][Intake_Call]_vars

\* The short dialogue, its utterances in any order, on a fresh record
SpecIntakeDialogue == InitBridge({"js", "vb"}) /\ [][Intake_Dialogue]_vars

\* A long stream of distinct utterances with repetitions
SpecIntakeWindow == InitBridge({"vb"}) /\ [][Intake_Next \/ Intake_Repeat]_vars

(* ================= setupWebDemoLive, src/lib/web-demo-live.cjs ========= *)

\* wss.on("connection"): missing key -> error + close, else new WS(upstreamUrl)
Live_Connection ==
    /\ bridge = "live"
    /\ lastEvt' = "connection"
    /\ upState = "NONE"
    /\ clientState = "OPEN"
    /\ clientCloseCalls = 0
    /\ IF ~hasKey
       THEN /\ clientOut' = ToClient(<< "error" >>)
            /\ clientState' = ClientCloseCalled
            /\ clientCloseCalls' = clientCloseCalls + 1
            /\ UNCHANGED upState
       ELSE /\ upState' = "CONNECTING"
            /\ clientOut' = << >>
            /\ UNCHANGED << clientState, clientCloseCalls >>
    /\ UNCHANGED << textBufs, bridge, hasKey, settingsSent, settingsApplied, closed, preFrames,
                    micBuf, pingTimer, upWire, upCloseCalls, nClientMsgs, nUpMsgs,
                    nThrows, rxBytes, lostBytes, nFrames, pushedLog, lastDrain, upEvents >>
    /\ CountClientErrors
    /\ UNCHANGED sessionVars
    /\ UNCHANGED gateVars

\* Variant of sendSettings without the  if (settingsSent) return;  guard
Live_sendSettings_NoGuard(outcome) ==
    IF outcome = "throw"
    THEN [sent |-> settingsSent, wire |-> upWire, out |-> << "status" >>, threw |-> TRUE]
    ELSE [sent |-> TRUE,
          wire |-> IF outcome = "ok" THEN Append(upWire, Settings) ELSE upWire,
          out |-> << "settings" >>, threw |-> FALSE]

\* function sendSettings(): the effect on (settingsSent, upWire, clientOut, nThrows)
\* for one outcome of upstream.send
Live_sendSettings(outcome) ==
    IF settingsSent
    THEN [sent |-> settingsSent, wire |-> upWire, out |-> << >>, threw |-> FALSE]
    ELSE IF outcome = "throw"
         THEN [sent |-> FALSE, wire |-> upWire, out |-> << "status" >>, threw |-> TRUE]
         ELSE [sent |-> TRUE,
               wire |-> IF outcome = "ok" THEN Append(upWire, Settings) ELSE upWire,
               out |-> << "settings" >>, threw |-> FALSE]

\* upstream.on("open")
Live_UpstreamOpen ==
    /\ bridge = "live"
    /\ lastEvt' = "open"
    /\ upState = "CONNECTING"
    /\ upEvents = {}
    /\ upState' = "OPEN"
    /\ pingTimer' = TRUE
    /\ \E outcome \in SendOutcomes("OPEN") :
         LET r == Live_sendSettings(outcome)
         IN  /\ settingsSent' = r.sent
             /\ upWire' = r.wire
             /\ clientOut' = ToClient(r.out \o << "status" >>)
             /\ nThrows' = IF r.threw THEN nThrows + 1 ELSE nThrows
    /\ UNCHANGED << textBufs, bridge, hasKey, clientState, settingsApplied, closed, preFrames,
                    micBuf, upCloseCalls, clientCloseCalls, nClientMsgs, nUpMsgs,
                    rxBytes, lostBytes, nFrames, pushedLog, lastDrain, upEvents >>
    /\ CountClientErrors
    /\ UNCHANGED sessionVars
    /\ UNCHANGED gateVars

\* Kinds of upstream messages: the JSON events Welcome and SettingsApplied,
\* "Other" for a JSON event of another type, and binary TTS audio.
UpKinds == {"Welcome", "SettingsApplied", "Other", "Binary"}

\* Variant of the SettingsApplied case without  preFrames.length = 0
Live_SettingsApplied_KeepsQueue(okCount) ==
    /\ settingsApplied' = TRUE
    /\ IF Len(preFrames) > 0
       THEN LET sent == DrainSends(preFrames, okCount)
                threw == okCount < Len(preFrames)
            IN  /\ upWire' = IF upState = "OPEN" THEN upWire \o sent ELSE upWire
                /\ nThrows' = IF threw THEN nThrows + 1 ELSE nThrows
                /\ lastDrain' = [queued |-> preFrames, pushed |-> pushedLog,
                                 sent |-> sent, threw |-> threw,
                                 settingsSent |-> settingsSent]
                /\ UNCHANGED << preFrames, pushedLog >>
       ELSE UNCHANGED << upWire, preFrames, pushedLog, nThrows, lastDrain >>
    /\ UNCHANGED settingsSent

\* case "SettingsApplied": settingsApplied = true; flush preFrames.
\* okCount: how many sends of the flush return before one throws.
Live_SettingsApplied(okCount) ==
    /\ settingsApplied' = TRUE
    /\ IF Len(preFrames) > 0
       THEN LET sent == DrainSends(preFrames, okCount)
                threw == okCount < Len(preFrames)
            IN  /\ upWire' = IF upState = "OPEN" THEN upWire \o sent ELSE upWire
                /\ preFrames' = << >>
                /\ pushedLog' = << >>
                /\ nThrows' = IF threw THEN nThrows + 1 ELSE nThrows
                /\ lastDrain' = [queued |-> preFrames, pushed |-> pushedLog,
                                 sent |-> sent, threw |-> threw,
                                 settingsSent |-> settingsSent]
       ELSE UNCHANGED << upWire, preFrames, pushedLog, nThrows, lastDrain >>
    /\ UNCHANGED settingsSent

\* How many sends of a handler that calls upstream.send n times may succeed:
\* all of them, or, while a throw is still within the bound, the first k < n
\* of them (a socket that starts to throw keeps throwing within the handler).
\* The throw is tried at the first, the second and the last send.
OkCounts(n) ==
    IF nThrows < MaxThrows THEN {0, 1, n - 1, n} \cap (0..n) ELSE {n}

\* upstream.on("message")
Live_UpstreamMessage ==
    /\ bridge = "live"
    /\ upState \in {"OPEN", "CLOSING"}
    /\ nUpMsgs < MaxUpMsgs
    /\ nUpMsgs' = nUpMsgs + 1
    /\ \E kind \in UpKinds :
         /\ lastEvt' = kind
         /\ CASE kind = "Binary" ->
                   /\ clientOut' = ToClient(<< "tts" >>)
                   /\ UNCHANGED << settingsSent, settingsApplied, upWire, preFrames,
                                   pushedLog, nThrows, lastDrain >>
              [] kind = "Welcome" ->
                   \E outcome \in SendOutcomes(upState) :
                     LET r == Live_sendSettings(outcome)
                     IN  /\ settingsSent' = r.sent
                         /\ upWire' = r.wire
                         /\ nThrows' = IF r.threw THEN nThrows + 1 ELSE nThrows
                         /\ clientOut' = ToClient(r.out \o << "raw" >>)
                         /\ UNCHANGED << settingsApplied, preFrames, pushedLog, lastDrain >>
              [] kind = "SettingsApplied" ->
                   /\ UpstreamHasSettings
                   /\ \E okCount \in OkCounts(Len(preFrames)) : Live_SettingsApplied(okCount)
                   /\ clientOut' = ToClient(<< "raw" >>)
              [] kind = "Other" ->
                   /\ clientOut' = ToClient(<< "raw" >>)
                   /\ UNCHANGED << settingsSent, settingsApplied, upWire, preFrames,
                                   pushedLog, nThrows, lastDrain >>
    /\ UNCHANGED << textBufs, bridge, hasKey, upState, clientState, closed, micBuf, pingTimer,
                    upCloseCalls, clientCloseCalls, nClientMsgs, rxBytes, lostBytes,
                    nFrames, upEvents >>
    /\ CountClientErrors
    /\ UNCHANGED sessionVars
    /\ UNCHANGED gateVars

\* The audio path of client.on("message") for a message of n bytes, the
\* upstream being OPEN: append to micBuf, then the frame loop
Live_AudioIn(n) ==
    LET buf == Buf(micBuf.off + micBuf.len, n)
        s0 == [micBuf |-> Concat(micBuf, buf), preFrames |-> preFrames,
               pushed |-> pushedLog, live |-> << >>, n |-> 0]
    IN  \E s \in {FrameLoop(s0, settingsSent /\ settingsApplied, s0.micBuf.len + 1)} :
          /\ micBuf' = s.micBuf
          /\ preFrames' = s.preFrames
          /\ pushedLog' = s.pushed
          /\ nFrames' = nFrames + s.n
          /\ rxBytes' = rxBytes + n
          /\ \E okCount \in OkCounts(Len(s.live)) :
               /\ upWire' = upWire \o [i \in 1..okCount |-> Audio(s.live[i])]
               /\ nThrows' = IF okCount < Len(s.live) THEN nThrows + 1 ELSE nThrows

\* client.on("message") with a binary message of n bytes
Live_ClientBinary ==
    /\ bridge = "live"
    /\ lastEvt' = "clientBinary"
    /\ clientState \in {"OPEN", "CLOSING"}
    /\ upState # "NONE"
    /\ nClientMsgs < MaxClientMsgs
    /\ nClientMsgs' = nClientMsgs + 1
    /\ clientOut' = << >>
    /\ \E n \in ChunkSizes :
         IF upState # "OPEN"
         THEN /\ lostBytes' = lostBytes + n
              /\ UNCHANGED << micBuf, preFrames, upWire, pushedLog, nFrames, nThrows,
                              rxBytes >>
         ELSE /\ Live_AudioIn(n)
              /\ UNCHANGED lostBytes
    /\ UNCHANGED << textBufs, bridge, hasKey, upState, clientState, settingsSent, settingsApplied,
                    closed, pingTimer, upCloseCalls, clientCloseCalls, nUpMsgs,
                    lastDrain, upEvents >>
    /\ CountClientErrors
    /\ UNCHANGED sessionVars
    /\ UNCHANGED gateVars

\* client.on("message") with a text message. The handler returns while the
\* upstream is not OPEN; a text frame handed over as a string is answered
\* with a status and dropped; one handed over as a Buffer fails the
\* typeof msg === "string" test and takes the audio path.
Live_ClientText ==
    /\ bridge = "live"
    /\ lastEvt' = "clientText"
    /\ clientState \in {"OPEN", "CLOSING"}
    /\ upState # "NONE"
    /\ nClientMsgs < MaxClientMsgs
    /\ nClientMsgs' = nClientMsgs + 1
    /\ \E asString \in TextAsString, n \in TextSizes :
         IF upState # "OPEN" \/ asString
         THEN /\ clientOut' = IF upState = "OPEN" THEN ToClient(<< "status" >>) ELSE << >>
              /\ UNCHANGED << micBuf, preFrames, upWire, pushedLog, nFrames, nThrows,
                              rxBytes, textBufs >>
         ELSE /\ clientOut' = << >>
              /\ textBufs' = textBufs \cup {Buf(micBuf.off + micBuf.len, n)}
              /\ Live_AudioIn(n)
    /\ UNCHANGED << bridge, hasKey, upState, clientState, settingsSent, settingsApplied,
                    closed, pingTimer, upCloseCalls, clientCloseCalls, nUpMsgs,
                    lostBytes, lastDrain, upEvents >>
    /\ CountClientErrors
    /\ UNCHANGED sessionVars
    /\ UNCHANGED gateVars

\* Variant of the unexpected-response handler that does not close the client
Live_UnexpectedResponse_NoClose ==
    /\ bridge = "live"
    /\ lastEvt' = "unexpected-response"
    /\ upState = "CONNECTING"
    /\ upEvents = {}
    /\ upEvents' = {"unexpected-response"}
    /\ clientOut' = ToClient(<< "error" >>)
    /\ UNCHANGED << clientState, clientCloseCalls >>
    /\ UNCHANGED << textBufs, bridge, hasKey, upState, settingsSent, settingsApplied, closed,
                    preFrames, micBuf, pingTimer, upWire, upCloseCalls, nClientMsgs,
                    nUpMsgs, nThrows, rxBytes, lostBytes, nFrames, pushedLog, lastDrain >>
    /\ CountClientErrors
    /\ UNCHANGED sessionVars
    /\ UNCHANGED gateVars

\* upstream.on("unexpected-response"): res 'end' -> error + client.close.
\* The handler does not abort the request: the socket stays CONNECTING.
Live_UnexpectedResponse ==
    /\ bridge = "live"
    /\ lastEvt' = "unexpected-response"
    /\ upState = "CONNECTING"
    /\ upEvents = {}
    /\ upEvents' = {"unexpected-response"}
    /\ clientOut' = ToClient(<< "error" >>)
    /\ clientState' = ClientCloseCalled
    /\ clientCloseCalls' = clientCloseCalls + 1
    /\ UNCHANGED << textBufs, bridge, hasKey, upState, settingsSent, settingsApplied, closed,
                    preFrames, micBuf, pingTimer, upWire, upCloseCalls, nClientMsgs,
                    nUpMsgs, nThrows, rxBytes, lostBytes, nFrames, pushedLog, lastDrain >>
    /\ CountClientErrors
    /\ UNCHANGED sessionVars
    /\ UNCHANGED gateVars

\* Variant of the upstream error handler that does not close the client
Live_UpstreamError_NoClose ==
    /\ bridge = "live"
    /\ lastEvt' = "upstreamError"
    /\ upState \in {"CONNECTING", "OPEN", "CLOSING"}
    /\ "error" \notin upEvents
    /\ upEvents' = upEvents \cup {"error"}
    /\ upState' = "CLOSING"
    /\ pingTimer' = FALSE
    /\ clientOut' = ToClient(<< "error" >>)
    /\ UNCHANGED << clientState, clientCloseCalls >>
    /\ UNCHANGED << textBufs, bridge, hasKey, settingsSent, settingsApplied, closed, preFrames,
                    micBuf, upWire, upCloseCalls, nClientMsgs, nUpMsgs, nThrows,
                    rxBytes, lostBytes, nFrames, pushedLog, lastDrain >>
    /\ CountClientErrors
    /\ UNCHANGED sessionVars
    /\ UNCHANGED gateVars

\* upstream.on("error"); the socket emits 'close' after it
Live_UpstreamError ==
    /\ bridge = "live"
    /\ lastEvt' = "upstreamError"
    /\ upState \in {"CONNECTING", "OPEN", "CLOSING"}
    /\ "error" \notin upEvents
    /\ upEvents' = upEvents \cup {"error"}
    /\ upState' = "CLOSING"
    /\ pingTimer' = FALSE
    /\ clientOut' = ToClient(<< "error" >>)
    /\ clientState' = ClientCloseCalled
    /\ clientCloseCalls' = clientCloseCalls + 1
    /\ UNCHANGED << textBufs, bridge, hasKey, settingsSent, settingsApplied, closed, preFrames,
                    micBuf, upWire, upCloseCalls, nClientMsgs, nUpMsgs, nThrows,
                    rxBytes, lostBytes, nFrames, pushedLog, lastDrain >>
    /\ CountClientErrors
    /\ UNCHANGED sessionVars
    /\ UNCHANGED gateVars

\* upstream.on("close")
Live_UpstreamClose ==
    /\ bridge = "live"
    /\ lastEvt' = "upstreamClose"
    /\ upState \in {"CONNECTING", "OPEN", "CLOSING"}
    /\ upState' = "CLOSED"
    /\ pingTimer' = FALSE
    /\ clientOut' = ToClient(<< "error" >>)
    /\ clientState' = ClientCloseCalled
    /\ clientCloseCalls' = clientCloseCalls + 1
    /\ UNCHANGED << textBufs, bridge, hasKey, settingsSent, settingsApplied, closed, preFrames,
                    micBuf, upWire, upCloseCalls, nClientMsgs, nUpMsgs, nThrows,
                    rxBytes, lostBytes, nFrames, pushedLog, lastDrain, upEvents >>
    /\ CountClientErrors
    /\ UNCHANGED sessionVars
    /\ UNCHANGED gateVars

\* Variant of the client close handler that leaves the upstream socket open
Live_ClientClose_NoUpstreamClose ==
    /\ bridge = "live"
    /\ lastEvt' = "clientClose"
    /\ upState # "NONE"
    /\ clientState \in {"OPEN", "CLOSING"}
    /\ clientState' = "CLOSED"
    /\ pingTimer' = FALSE
    /\ UNCHANGED << upState, upCloseCalls >>
    /\ clientOut' = << >>
    /\ UNCHANGED << textBufs, bridge, hasKey, settingsSent, settingsApplied, closed, preFrames,
                    micBuf, upWire, clientCloseCalls, nClientMsgs, nUpMsgs, nThrows,
                    rxBytes, lostBytes, nFrames, pushedLog, lastDrain, upEvents >>
    /\ CountClientErrors
    /\ UNCHANGED sessionVars
    /\ UNCHANGED gateVars

\* client.on("close")
Live_ClientClose ==
    /\ bridge = "live"
    /\ lastEvt' = "clientClose"
    /\ upState # "NONE"
    /\ clientState \in {"OPEN", "CLOSING"}
    /\ clientState' = "CLOSED"
    /\ pingTimer' = FALSE
    /\ upState' = UpstreamCloseCalled
    /\ upCloseCalls' = upCloseCalls + 1
    /\ clientOut' = << >>
    /\ UNCHANGED << textBufs, bridge, hasKey, settingsSent, settingsApplied, closed, preFrames,
                    micBuf, upWire, clientCloseCalls, nClientMsgs, nUpMsgs, nThrows,
                    rxBytes, lostBytes, nFrames, pushedLog, lastDrain, upEvents >>
    /\ CountClientErrors
    /\ UNCHANGED sessionVars
    /\ UNCHANGED gateVars

\* client.on("error")
Live_ClientError ==
    /\ bridge = "live"
    /\ lastEvt' = "clientError"
    /\ upState # "NONE"
    /\ clientState = "OPEN"
    /\ clientState' = "CLOSING"
    /\ pingTimer' = FALSE
    /\ upState' = UpstreamCloseCalled
    /\ upCloseCalls' = upCloseCalls + 1
    /\ clientOut' = << >>
    /\ UNCHANGED << textBufs, bridge, hasKey, settingsSent, settingsApplied, closed, preFrames,
                    micBuf, upWire, clientCloseCalls, nClientMsgs, nUpMsgs, nThrows,
                    rxBytes, lostBytes, nFrames, pushedLog, lastDrain, upEvents >>
    /\ CountClientErrors
    /\ UNCHANGED sessionVars
    /\ UNCHANGED gateVars

\* The audio and control path of one connection
NextLive ==
    \/ Live_Connection
    \/ Live_UpstreamOpen
    \/ Live_UpstreamMessage
    \/ Live_ClientBinary
    \/ Live_ClientText

\* ... and its teardown
NextLiveTeardown ==
    \/ Live_UnexpectedResponse
    \/ Live_UpstreamError
    \/ Live_UpstreamClose
    \/ Live_ClientClose
    \/ Live_ClientError

Init == InitBridge({"live"})

Spec == Init /\ [][NextLive]_vars

SpecLiveTeardown == Init /\ [][NextLive \/ NextLiveTeardown]_vars

\* SpecLiveTeardown with the one step the server is bound to take: it runs
\* the connection handler. Nothing obliges the upstream to answer.
SpecHandshake == SpecLiveTeardown /\ WF_vars(Live_Connection)

\* The case labels of the transcript branch of the switch (evt.type)
Live_TranscriptTags ==
    {"ConversationText", "UserTranscript", "UserResponse", "Transcript",
     "PartialTranscript", "AgentTranscript", "AgentResponse", "AddUserMessage",
     "AddAssistantMessage", "AddPartialTranscript"}

\* Types of upstream JSON events other than Welcome and SettingsApplied:
\* the case labels of the switch and some types it has no case for
EventTags ==
    Live_TranscriptTags
      \cup {"AgentWarning", "AgentError", "Error"}
      \cup {"History", "UserStartedSpeaking", "AgentStartedSpeaking"}

\* Variant of Live_EventOut that relays a message it could not parse
Live_EventOut_RelaysUnparsed(tag, hasText) ==
    IF tag \in Live_TranscriptTags /\ hasText THEN << "transcript", "raw" >>
    ELSE IF tag \in {"AgentWarning", "AgentError", "Error"} THEN << "status", "raw" >>
    ELSE << "raw" >>

\* Variant of Live_EventOut that maps UserStartedSpeaking to a state message
Live_EventOut_StateEvents(tag, hasText) ==
    IF tag = "Malformed" THEN << >>
    ELSE IF tag \in Live_TranscriptTags /\ hasText THEN << "transcript", "raw" >>
    ELSE IF tag \in {"AgentWarning", "AgentError", "Error"} THEN << "status", "raw" >>
    ELSE IF tag = "UserStartedSpeaking" THEN << "state", "raw" >>
    ELSE << "raw" >>

\* What upstream.on("message") sends to the client for a JSON message: nothing
\* if JSON.parse fails ("Malformed"); else the message of the switch case, if
\* any, and then the raw JSON text. hasText: the event carries non-empty text.
\* "status.warning" / "status.error": {type: "status", text: "Agent warning: ..."}
\* / {type: "status", text: "Agent error: ..."}.
Live_EventOut(tag, hasText) ==
    IF tag = "Malformed" THEN << >>
    ELSE IF tag \in Live_TranscriptTags
         THEN (IF hasText THEN << "transcript", "raw" >> ELSE << "raw" >>)
    ELSE IF tag = "AgentWarning" THEN << "status.warning", "raw" >>
    ELSE IF tag \in {"AgentError", "Error"} THEN << "status.error", "raw" >>
    ELSE << "raw" >>

\* upstream.on("message") with a JSON message that does not parse, or with an
\* event of a type other than Welcome and SettingsApplied. lastEvt records the
\* type, "Malformed", or "EmptyText" for an event of a transcript type whose
\* text is empty.
Live_UpstreamEvent ==
    /\ bridge = "live"
    /\ upState \in {"OPEN", "CLOSING"}
    /\ nUpMsgs < MaxUpMsgs
    /\ nUpMsgs' = nUpMsgs + 1
    /\ \E tag \in EventTags \cup {"Malformed"}, hasText \in BOOLEAN :
         /\ hasText \/ tag \in Live_TranscriptTags
         /\ lastEvt' = IF hasText THEN tag ELSE "EmptyText"
         /\ clientOut' = ToClient(Live_EventOut(tag, hasText))
    /\ UNCHANGED << textBufs, bridge, hasKey, upState, clientState, settingsSent,
                    settingsApplied, closed, preFrames, micBuf, pingTimer, upWire,
                    upCloseCalls, clientCloseCalls, nClientMsgs, nThrows, rxBytes,
                    lostBytes, nFrames, pushedLog, lastDrain, upEvents >>
    /\ CountClientErrors
    /\ UNCHANGED sessionVars
    /\ UNCHANGED gateVars

\* The data path with every type of upstream event
SpecLiveEvents == Init /\ [][NextLive \/ Live_UpstreamEvent]_vars

(* ====================== setupWebDemoLive, src/index.js ================= *)

\* wss.on('connection'): missing key -> error + close(1008), else
\* new WebSocket(dgUrl) and the keepalive interval
JS_Connection ==
    /\ bridge = "js"
    /\ lastEvt' = "connection"
    /\ upState = "NONE"
    /\ clientState = "OPEN"
    /\ clientCloseCalls = 0
    /\ IF ~hasKey
       THEN /\ clientOut' = ToClient(<< "error" >>)
            /\ clientState' = ClientCloseCalled
            /\ clientCloseCalls' = clientCloseCalls + 1
            /\ UNCHANGED << upState, pingTimer >>
       ELSE /\ upState' = "CONNECTING"
            /\ pingTimer' = TRUE
            /\ clientOut' = << >>
            /\ UNCHANGED << clientState, clientCloseCalls >>
    /\ UNCHANGED << textBufs, bridge, hasKey, settingsSent, settingsApplied, closed, preFrames,
                    micBuf, upWire, upCloseCalls, nClientMsgs, nUpMsgs,
                    nThrows, rxBytes, lostBytes, nFrames, pushedLog, lastDrain, upEvents >>
    /\ CountClientErrors
    /\ UNCHANGED sessionVars
    /\ UNCHANGED gateVars

\* function sendSettingsOnce()
JS_sendSettingsOnce(outcome) ==
    IF settingsSent
    THEN [sent |-> settingsSent, wire |-> upWire, out |-> << >>, threw |-> FALSE]
    ELSE IF outcome = "throw"
         THEN [sent |-> FALSE, wire |-> upWire, out |-> << "error" >>, threw |-> TRUE]
         ELSE [sent |-> TRUE,
               wire |-> IF outcome = "ok" THEN Append(upWire, Settings) ELSE upWire,
               out |-> << "state" >>, threw |-> FALSE]

\* agentWS.on('open')
JS_UpstreamOpen ==
    /\ bridge = "js"
    /\ lastEvt' = "open"
    /\ upState = "CONNECTING"
    /\ upState' = "OPEN"
    /\ \E outcome \in SendOutcomes("OPEN") :
         LET r == JS_sendSettingsOnce(outcome)
         IN  /\ settingsSent' = r.sent
             /\ upWire' = r.wire
             /\ clientOut' = ToClient(r.out)
             /\ nThrows' = IF r.threw THEN nThrows + 1 ELSE nThrows
    /\ UNCHANGED << textBufs, bridge, hasKey, clientState, settingsApplied, closed, preFrames,
                    micBuf, pingTimer, upCloseCalls, clientCloseCalls, nClientMsgs,
                    nUpMsgs, rxBytes, lostBytes, nFrames, pushedLog, lastDrain, upEvents >>
    /\ CountClientErrors
    /\ UNCHANGED sessionVars
    /\ UNCHANGED gateVars

\* case 'SettingsApplied': the same flush as in src/lib/web-demo-live.cjs
JS_SettingsApplied(okCount) == Live_SettingsApplied(okCount)

\* agentWS.on('message')
JS_UpstreamMessage ==
    /\ bridge = "js"
    /\ upState \in {"OPEN", "CLOSING"}
    /\ nUpMsgs < MaxUpMsgs
    /\ nUpMsgs' = nUpMsgs + 1
    /\ \E kind \in UpKinds :
         /\ lastEvt' = kind
         /\ CASE kind = "Binary" ->
                   /\ clientOut' = ToClient(<< "tts" >>)
                   /\ UNCHANGED << settingsSent, settingsApplied, upWire, preFrames,
                                   pushedLog, nThrows, lastDrain >>
              [] kind = "Welcome" ->
                   \E outcome \in SendOutcomes(upState) :
                     LET r == JS_sendSettingsOnce(outcome)
                     IN  /\ settingsSent' = r.sent
                         /\ upWire' = r.wire
                         /\ nThrows' = IF r.threw THEN nThrows + 1 ELSE nThrows
                         /\ clientOut' = ToClient(r.out)
                         /\ UNCHANGED << settingsApplied, preFrames, pushedLog, lastDrain >>
              [] kind = "SettingsApplied" ->
                   /\ UpstreamHasSettings
                   /\ \E okCount \in OkCounts(Len(preFrames)) : JS_SettingsApplied(okCount)
                   /\ clientOut' = << >>
              [] kind = "Other" ->
                   /\ clientOut' = << >>
                   /\ UNCHANGED << settingsSent, settingsApplied, upWire, preFrames,
                                   pushedLog, nThrows, lastDrain >>
    /\ UNCHANGED << textBufs, bridge, hasKey, upState, clientState, closed, micBuf, pingTimer,
                    upCloseCalls, clientCloseCalls, nClientMsgs, rxBytes, lostBytes,
                    nFrames, upEvents >>
    /\ CountClientErrors
    /\ UNCHANGED sessionVars
    /\ UNCHANGED gateVars

\* The audio path of browserWS.on('message') for a message of n bytes, the
\* upstream being OPEN: append to micBuf, then the frame loop
JS_AudioIn(n) ==
    LET buf == Buf(micBuf.off + micBuf.len, n)
        s0 == [micBuf |-> Concat(micBuf, buf), preFrames |-> preFrames,
               pushed |-> pushedLog, live |-> << >>, n |-> 0]
    IN  \E s \in {FrameLoop(s0, settingsSent /\ settingsApplied, s0.micBuf.len + 1)} :
          /\ micBuf' = s.micBuf
          /\ preFrames' = s.preFrames
          /\ pushedLog' = s.pushed
          /\ nFrames' = nFrames + s.n
          /\ rxBytes' = rxBytes + n
          /\ \E okCount \in OkCounts(Len(s.live)) :
               /\ upWire' = upWire \o [i \in 1..okCount |-> Audio(s.live[i])]
               /\ nThrows' = IF okCount < Len(s.live) THEN nThrows + 1 ELSE nThrows

\* browserWS.on('message') with a binary message of n bytes
JS_BrowserBinary ==
    /\ bridge = "js"
    /\ lastEvt' = "clientBinary"
    /\ clientState \in {"OPEN", "CLOSING"}
    /\ upState # "NONE"
    /\ nClientMsgs < MaxClientMsgs
    /\ nClientMsgs' = nClientMsgs + 1
    /\ clientOut' = << >>
    /\ \E n \in ChunkSizes :
         IF upState # "OPEN"
         THEN /\ lostBytes' = lostBytes + n
              /\ UNCHANGED << micBuf, preFrames, upWire, pushedLog, nFrames, nThrows,
                              rxBytes >>
         ELSE /\ JS_AudioIn(n)
              /\ UNCHANGED lostBytes
    /\ UNCHANGED << textBufs, bridge, hasKey, upState, clientState, settingsSent, settingsApplied,
                    closed, pingTimer, upCloseCalls, clientCloseCalls, nUpMsgs,
                    lastDrain, upEvents >>
    /\ CountClientErrors
    /\ UNCHANGED sessionVars
    /\ UNCHANGED gateVars

\* browserWS.on('message') with a text message. A text frame handed over as
\* a string is ignored; one handed over as a Buffer fails the
\* typeof msg === 'string' test and takes the audio path.
JS_BrowserText ==
    /\ bridge = "js"
    /\ lastEvt' = "clientText"
    /\ clientState \in {"OPEN", "CLOSING"}
    /\ upState # "NONE"
    /\ nClientMsgs < MaxClientMsgs
    /\ nClientMsgs' = nClientMsgs + 1
    /\ clientOut' = << >>
    /\ \E asString \in TextAsString, n \in TextSizes :
         IF upState # "OPEN" \/ asString
         THEN UNCHANGED << micBuf, preFrames, upWire, pushedLog, nFrames, nThrows,
                           rxBytes, textBufs >>
         ELSE /\ textBufs' = textBufs \cup {Buf(micBuf.off + micBuf.len, n)}
              /\ JS_AudioIn(n)
    /\ UNCHANGED << bridge, hasKey, upState, clientState, settingsSent, settingsApplied,
                    closed, pingTimer, upCloseCalls, clientCloseCalls, nUpMsgs,
                    lostBytes, lastDrain, upEvents >>
    /\ CountClientErrors
    /\ UNCHANGED sessionVars
    /\ UNCHANGED gateVars

NextJS ==
    \/ JS_Connection
    \/ JS_UpstreamOpen
    \/ JS_UpstreamMessage
    \/ JS_BrowserBinary
    \/ JS_BrowserText

(* ---------------- transcript branch of agentWS.on('message') ----------- *)
(* A role string is a sequence of characters, so that toLowerCase and      *)
(* includes are computed.                                                  *)

R_none == << >>
R_user == << "u", "s", "e", "r" >>
R_User == << "U", "s", "e", "r" >>
R_agent == << "a", "g", "e", "n", "t" >>
R_Agent == << "A", "g", "e", "n", "t" >>
R_assistant == << "a", "s", "s", "i", "s", "t", "a", "n", "t" >>
R_customer == << "c", "u", "s", "t", "o", "m", "e", "r" >>

\* Values of evt.role || evt.speaker || evt.actor || ''
Roles == {R_none, R_user, R_User, R_agent, R_Agent, R_assistant, R_customer}

\* String.prototype.toLowerCase on the characters that occur in Roles
toLowerCase(q) ==
    [i \in DOMAIN q |-> CASE q[i] = "U" -> "u" [] q[i] = "A" -> "a" [] OTHER -> q[i]]

\* String.prototype.includes
includes(q, pat) ==
    \E i \in 0..(Len(q) - Len(pat)) : SubSeq(q, i + 1, i + Len(pat)) = pat

\* Variant of JS_TranscriptRole that takes 'assistant' for the agent as well
JS_TranscriptRole_Assistant(role) ==
    IF includes(role, R_agent) \/ includes(role, R_assistant)
    THEN "transcript.Agent" ELSE "transcript.User"

\* role: role.includes('agent') ? 'Agent' : 'User', role already lower-cased;
\* the value is the transcript message with that role
JS_TranscriptRole(role) ==
    IF includes(role, R_agent) THEN "transcript.Agent" ELSE "transcript.User"

\* agentWS.on('message') with an event of one of the transcript types
JS_UpstreamTranscript ==
    /\ bridge = "js"
    /\ upState \in {"OPEN", "CLOSING"}
    /\ nUpMsgs < MaxUpMsgs
    /\ nUpMsgs' = nUpMsgs + 1
    /\ \E r \in Roles, text \in Utterances :
         LET role == toLowerCase(r)
         IN  /\ lastIn' = [utt |-> text, role |-> r, final |-> FALSE]
             /\ IF text = ""
                THEN /\ lastEvt' = "EmptyText"
                     /\ clientOut' = << >>
                     /\ UNCHANGED << intake, nCalls >>
                ELSE /\ lastEvt' = "transcript"
                     /\ IF includes(role, R_user)
                        THEN /\ intake' = Shadow_updateIntakeFromUserText(intake, text)
                             /\ nCalls' = nCalls + 1
                        ELSE UNCHANGED << intake, nCalls >>
                     /\ clientOut' = ToClient(<< JS_TranscriptRole(role) >>)
    /\ UNCHANGED << textBufs, bridge, hasKey, upState, clientState, settingsSent,
                    settingsApplied, closed, preFrames, micBuf, pingTimer, upWire,
                    upCloseCalls, clientCloseCalls, nClientMsgs, nThrows, rxBytes,
                    lostBytes, nFrames, pushedLog, lastDrain, upEvents >>
    /\ CountClientErrors
    /\ UNCHANGED << logged, isAlive, unansweredPings >>
    /\ UNCHANGED gateVars

\* A connection of src/index.js that receives transcript events
SpecJSTranscript ==
    InitBridge({"js"}) /\ [][JS_Connection \/ JS_UpstreamOpen \/ JS_UpstreamTranscript]_vars

\* Variant of safeClose without the  if (closed) return;  guard
JS_safeClose_NoGuard(up, cl) ==
    /\ closed' = TRUE
    /\ upState' = CloseCalledOn(up)
    /\ upCloseCalls' = upCloseCalls + 1
    /\ clientState' = CloseCalledOn(cl)
    /\ clientCloseCalls' = clientCloseCalls + 1

\* function safeClose() of src/index.js, run with the upstream socket in state up
\* and the client socket in state cl: once per connection (closed),
\* agentWS.close(1000) and browserWS.terminate()
JS_safeClose(up, cl) ==
    IF closed
    THEN /\ upState' = up
         /\ clientState' = cl
         /\ UNCHANGED << upCloseCalls, clientCloseCalls, closed >>
    ELSE /\ closed' = TRUE
         /\ upState' = CloseCalledOn(up)
         /\ upCloseCalls' = upCloseCalls + 1
         /\ clientState' = CloseCalledOn(cl)
         /\ clientCloseCalls' = clientCloseCalls + 1

\* Variant of JS_UpstreamClose that logs no final snapshot
JS_UpstreamClose_NoFinalLog ==
    /\ bridge = "js"
    /\ lastEvt' = "upstreamClose"
    /\ upState \in {"CONNECTING", "OPEN", "CLOSING"}
    /\ JS_safeClose("CLOSED", clientState)
    /\ clientOut' = << >>
    /\ pingTimer' = FALSE
    /\ UNCHANGED << textBufs, bridge, hasKey, settingsSent, settingsApplied,
                    preFrames, micBuf, upWire, nClientMsgs, nUpMsgs, nThrows,
                    rxBytes, lostBytes, nFrames, pushedLog, lastDrain, upEvents >>
    /\ CountClientErrors
    /\ UNCHANGED sessionVars
    /\ UNCHANGED gateVars

\* Variant of JS_UpstreamClose without clearInterval(keepalive)
JS_UpstreamClose_KeepsTimer ==
    /\ bridge = "js"
    /\ lastEvt' = "upstreamClose"
    /\ upState \in {"CONNECTING", "OPEN", "CLOSING"}
    /\ JS_safeClose("CLOSED", clientState)
    /\ clientOut' = << >>
    /\ UNCHANGED pingTimer
    /\ UNCHANGED << textBufs, bridge, hasKey, settingsSent, settingsApplied,
                    preFrames, micBuf, upWire, nClientMsgs, nUpMsgs, nThrows,
                    rxBytes, lostBytes, nFrames, pushedLog, lastDrain, upEvents >>
    /\ CountClientErrors
    /\ logged' = Append(logged, "intake_final")
    /\ UNCHANGED << intake, isAlive, unansweredPings, nCalls, lastIn >>
    /\ UNCHANGED gateVars

\* agentWS.on('close')
JS_UpstreamClose ==
    /\ bridge = "js"
    /\ lastEvt' = "upstreamClose"
    /\ upState \in {"CONNECTING", "OPEN", "CLOSING"}
    /\ JS_safeClose("CLOSED", clientState)
    /\ clientOut' = << >>
    /\ pingTimer' = FALSE
    /\ UNCHANGED << textBufs, bridge, hasKey, settingsSent, settingsApplied,
                    preFrames, micBuf, upWire, nClientMsgs, nUpMsgs, nThrows,
                    rxBytes, lostBytes, nFrames, pushedLog, lastDrain, upEvents >>
    /\ CountClientErrors
    /\ logged' = Append(logged, "intake_final")
    /\ UNCHANGED << intake, isAlive, unansweredPings, nCalls, lastIn >>
    /\ UNCHANGED gateVars

\* agentWS.on('error'); the socket emits 'close' after it
JS_UpstreamError ==
    /\ bridge = "js"
    /\ lastEvt' = "upstreamError"
    /\ upState \in {"CONNECTING", "OPEN", "CLOSING"}
    /\ "error" \notin upEvents
    /\ upEvents' = upEvents \cup {"error"}
    /\ upState' = "CLOSING"
    /\ clientOut' = << >>
    /\ UNCHANGED << textBufs, bridge, hasKey, clientState, settingsSent,
                    settingsApplied, closed, preFrames, micBuf, pingTimer, upWire,
                    upCloseCalls, clientCloseCalls, nClientMsgs, nUpMsgs, nThrows,
                    rxBytes, lostBytes, nFrames, pushedLog, lastDrain >>
    /\ CountClientErrors
    /\ UNCHANGED sessionVars
    /\ UNCHANGED gateVars

\* browserWS.on('close')
JS_ClientClose ==
    /\ bridge = "js"
    /\ lastEvt' = "clientClose"
    /\ upState # "NONE"
    /\ clientState \in {"OPEN", "CLOSING"}
    /\ JS_safeClose(upState, "CLOSED")
    /\ clientOut' = << >>
    /\ UNCHANGED << textBufs, bridge, hasKey, settingsSent, settingsApplied,
                    preFrames, micBuf, pingTimer, upWire, nClientMsgs, nUpMsgs,
                    nThrows, rxBytes, lostBytes, nFrames, pushedLog, lastDrain,
                    upEvents >>
    /\ CountClientErrors
    /\ UNCHANGED sessionVars
    /\ UNCHANGED gateVars

\* browserWS.on('error'); the socket emits 'close' after it
JS_ClientError ==
    /\ bridge = "js"
    /\ lastEvt' = "clientError"
    /\ upState # "NONE"
    /\ clientState = "OPEN"
    /\ JS_safeClose(upState, "CLOSING")
    /\ clientOut' = << >>
    /\ UNCHANGED << textBufs, bridge, hasKey, settingsSent, settingsApplied,
                    preFrames, micBuf, pingTimer, upWire, nClientMsgs, nUpMsgs,
                    nThrows, rxBytes, lostBytes, nFrames, pushedLog, lastDrain,
                    upEvents >>
    /\ CountClientErrors
    /\ UNCHANGED sessionVars
    /\ UNCHANGED gateVars

NextJSTeardown ==
    \/ JS_UpstreamClose
    \/ JS_UpstreamError
    \/ JS_ClientClose
    \/ JS_ClientError

\* One connection of either setupWebDemoLive
SpecSettingsOnce == InitBridge({"live", "js"}) /\ [][NextLive \/ NextJS]_vars

(* ================ createVoiceBridge, src/unnamed/part_012 ============== *)

\* Kinds of client text messages: {type:'start'}, {type:'stop'}, anything else
TextKinds == {"start", "stop", "other"}

\* createVoiceBridge: missing key -> error + close(1011), else
\* new WebSocket(dgUrl) and the keepalive interval
VB_Connection ==
    /\ bridge = "vb"
    /\ lastEvt' = "connection"
    /\ upState = "NONE"
    /\ clientState = "OPEN"
    /\ clientCloseCalls = 0
    /\ IF ~hasKey
       THEN /\ clientOut' = ToClient(<< "error" >>)
            /\ clientState' = ClientCloseCalled
            /\ clientCloseCalls' = clientCloseCalls + 1
            /\ UNCHANGED << upState, pingTimer >>
       ELSE /\ upState' = "CONNECTING"
            /\ pingTimer' = TRUE
            /\ clientOut' = << >>
            /\ UNCHANGED << clientState, clientCloseCalls >>
    /\ UNCHANGED << textBufs, bridge, hasKey, settingsSent, settingsApplied, closed, preFrames,
                    micBuf, upWire, upCloseCalls, nClientMsgs, nUpMsgs,
                    nThrows, rxBytes, lostBytes, nFrames, pushedLog, lastDrain, upEvents >>
    /\ CountClientErrors
    /\ UNCHANGED sessionVars
    /\ UNCHANGED gateVars

\* function sendSettings()
VB_sendSettings(outcome) ==
    IF settingsSent
    THEN [sent |-> settingsSent, wire |-> upWire, out |-> << >>, threw |-> FALSE]
    ELSE IF outcome = "throw"
         THEN [sent |-> FALSE, wire |-> upWire, out |-> << "error" >>, threw |-> TRUE]
         ELSE [sent |-> TRUE,
               wire |-> IF outcome = "ok" THEN Append(upWire, Settings) ELSE upWire,
               out |-> << "state" >>, threw |-> FALSE]

\* dgWS.on('open')
VB_UpstreamOpen ==
    /\ bridge = "vb"
    /\ lastEvt' = "open"
    /\ upState = "CONNECTING"
    /\ upState' = "OPEN"
    /\ \E outcome \in SendOutcomes("OPEN") :
         LET r == VB_sendSettings(outcome)
         IN  /\ settingsSent' = r.sent
             /\ upWire' = r.wire
             /\ clientOut' = ToClient(r.out)
             /\ nThrows' = IF r.threw THEN nThrows + 1 ELSE nThrows
    /\ UNCHANGED << textBufs, bridge, hasKey, clientState, settingsApplied, closed, preFrames,
                    micBuf, pingTimer, upCloseCalls, clientCloseCalls, nClientMsgs,
                    nUpMsgs, rxBytes, lostBytes, nFrames, pushedLog, lastDrain, upEvents >>
    /\ CountClientErrors
    /\ UNCHANGED sessionVars
    /\ UNCHANGED gateVars

\* function flushPrerollIfReady(), called with settingsApplied just set
VB_flushPrerollIfReady(okCount) ==
    IF Len(preFrames) > 0
    THEN LET sent == DrainSends(preFrames, okCount)
             threw == okCount < Len(preFrames)
         IN  /\ upWire' = IF upState = "OPEN" THEN upWire \o sent ELSE upWire
             /\ preFrames' = << >>
             /\ pushedLog' = << >>
             /\ nThrows' = IF threw THEN nThrows + 1 ELSE nThrows
             /\ lastDrain' = [queued |-> preFrames, pushed |-> pushedLog,
                              sent |-> sent, threw |-> threw,
                              settingsSent |-> settingsSent]
    ELSE UNCHANGED << upWire, preFrames, pushedLog, nThrows, lastDrain >>

\* The readiness a binary upstream message leaves behind:
\* if (settingsSent && !settingsApplied) { settingsApplied = true; ... }
VB_AssumedAfterAudio(sent, applied) == sent /\ ~applied

\* dgWS.on('message')
VB_UpstreamMessage ==
    /\ bridge = "vb"
    /\ upState \in {"OPEN", "CLOSING"}
    /\ nUpMsgs < MaxUpMsgs
    /\ nUpMsgs' = nUpMsgs + 1
    /\ \E kind \in UpKinds :
         /\ lastEvt' = kind
         /\ CASE kind = "Binary" ->
                   /\ clientOut' = ToClient(<< "tts" >>)
                   /\ IF VB_AssumedAfterAudio(settingsSent, settingsApplied)
                      THEN /\ settingsApplied' = TRUE
                           /\ upEvents' = upEvents \cup {"BinaryAfterSettings"}
                           /\ \E okCount \in OkCounts(Len(preFrames)) :
                                VB_flushPrerollIfReady(okCount)
                      ELSE UNCHANGED << settingsApplied, upWire, preFrames, pushedLog,
                                        nThrows, lastDrain, upEvents >>
                   /\ UNCHANGED settingsSent
              [] kind = "Welcome" ->
                   \E outcome \in SendOutcomes(upState) :
                     LET r == VB_sendSettings(outcome)
                     IN  /\ settingsSent' = r.sent
                         /\ upWire' = r.wire
                         /\ nThrows' = IF r.threw THEN nThrows + 1 ELSE nThrows
                         /\ clientOut' = ToClient(r.out)
                         /\ UNCHANGED << settingsApplied, preFrames, pushedLog,
                                         lastDrain, upEvents >>
              [] kind = "SettingsApplied" ->
                   /\ UpstreamHasSettings
                   /\ settingsApplied' = TRUE
                   /\ upEvents' = upEvents \cup {"SettingsApplied"}
                   /\ clientOut' = ToClient(<< "state" >>)
                   /\ \E okCount \in OkCounts(Len(preFrames)) :
                        VB_flushPrerollIfReady(okCount)
                   /\ UNCHANGED settingsSent
              [] kind = "Other" ->
                   /\ clientOut' = << >>
                   /\ UNCHANGED << settingsSent, settingsApplied, upWire, preFrames,
                                   pushedLog, nThrows, lastDrain, upEvents >>
    /\ UNCHANGED << textBufs, bridge, hasKey, upState, clientState, closed, micBuf, pingTimer,
                    upCloseCalls, clientCloseCalls, nClientMsgs, rxBytes, lostBytes,
                    nFrames >>
    /\ CountClientErrors
    /\ UNCHANGED sessionVars
    /\ UNCHANGED gateVars

(* ---------------- transcript branch of dgWS.on('message') -------------- *)

\* Variant of VB_CompleteEdge that ignores intake.completeLogged
VB_CompleteEdge_Level(rec) == isComplete(rec)

\* if (!intake.completeLogged && isComplete(intake))
VB_CompleteEdge(rec) == ~rec.completeLogged /\ isComplete(rec)

\* dgWS.on('message') with an event of one of the transcript types
VB_UpstreamTranscript ==
    /\ bridge = "vb"
    /\ upState \in {"OPEN", "CLOSING"}
    /\ nUpMsgs < MaxTranscripts
    /\ nUpMsgs' = nUpMsgs + 1
    /\ lastEvt' = "transcript"
    /\ clientOut' = ToClient(<< "transcript" >>)
    /\ \E r \in {R_none, R_User, R_agent}, text \in Utterances, isFinal \in BOOLEAN :
         /\ lastIn' = [utt |-> text, role |-> r, final |-> isFinal]
         /\ IF text # "" /\ includes(toLowerCase(r), R_user) /\ (isFinal \/ Words(text) >= 3)
            THEN LET rec == updateIntakeFromUserText(intake, text)
                 IN  /\ nCalls' = nCalls + 1
                     /\ IF VB_CompleteEdge(rec)
                        THEN /\ intake' = [rec EXCEPT !.completeLogged = TRUE]
                             /\ logged' = Append(logged, "intake_complete")
                        ELSE /\ intake' = rec
                             /\ UNCHANGED logged
            ELSE UNCHANGED << intake, nCalls, logged >>
    /\ UNCHANGED << textBufs, bridge, hasKey, upState, clientState, settingsSent,
                    settingsApplied, closed, preFrames, micBuf, pingTimer, upWire,
                    upCloseCalls, clientCloseCalls, nClientMsgs, nThrows, rxBytes,
                    lostBytes, nFrames, pushedLog, lastDrain, upEvents >>
    /\ CountClientErrors
    /\ UNCHANGED << isAlive, unansweredPings >>
    /\ UNCHANGED gateVars

\* A connection of part_012 that receives transcript events
SpecVBTranscript ==
    InitBridge({"vb"}) /\ [][VB_Connection \/ VB_UpstreamOpen \/ VB_UpstreamTranscript]_vars

\* Variant of VB_AudioPath without the settingsApplied test
VB_AudioPath_NoGate(q, pushed, data, applied) ==
    [preFrames |-> q, pushed |-> pushed, live |-> << data >>]

\* The audio path of serverWS.on('message') for one binary message `data`,
\* the upstream being OPEN: queued while !settingsApplied, else sent as it is.
\* Gives [preFrames, pushed, live].
VB_AudioPath(q, pushed, data, applied) ==
    IF ~applied
    THEN [preFrames |-> PrerollPush(q, data), pushed |-> Append(pushed, data),
          live |-> << >>]
    ELSE [preFrames |-> q, pushed |-> pushed, live |-> << data >>]

\* The audio path of serverWS.on('message') for a message of n bytes, the
\* upstream being OPEN
VB_AudioIn(n) ==
    LET s == VB_AudioPath(preFrames, pushedLog, Buf(rxBytes, n), settingsApplied)
    IN  /\ preFrames' = s.preFrames
        /\ pushedLog' = s.pushed
        /\ rxBytes' = rxBytes + n
        /\ \E okCount \in OkCounts(Len(s.live)) :
             /\ upWire' = upWire \o [i \in 1..okCount |-> Audio(s.live[i])]
             /\ nThrows' = IF okCount < Len(s.live) THEN nThrows + 1 ELSE nThrows

\* serverWS.on('message') with a binary message of n bytes
VB_ClientBinary ==
    /\ bridge = "vb"
    /\ lastEvt' = "clientBinary"
    /\ clientState \in {"OPEN", "CLOSING"}
    /\ upState # "NONE"
    /\ nClientMsgs < MaxClientMsgs
    /\ nClientMsgs' = nClientMsgs + 1
    /\ clientOut' = << >>
    /\ \E n \in ChunkSizes :
         IF upState # "OPEN"
         THEN /\ lostBytes' = lostBytes + n
              /\ UNCHANGED << preFrames, upWire, pushedLog, nThrows, rxBytes >>
         ELSE /\ VB_AudioIn(n)
              /\ UNCHANGED lostBytes
    /\ UNCHANGED << textBufs, bridge, hasKey, upState, clientState, settingsSent, settingsApplied,
                    closed, micBuf, pingTimer, upCloseCalls, clientCloseCalls, nUpMsgs,
                    nFrames, lastDrain, upEvents >>
    /\ CountClientErrors
    /\ UNCHANGED sessionVars
    /\ UNCHANGED gateVars

\* function safeClose() of src/unnamed/part_012, run with the upstream socket in state up
\* and the client socket in state cl: no guard:
\* dgWS.close(1000) and serverWS.close(1000)
VB_safeClose(up, cl) ==
    /\ upState' = CloseCalledOn(up)
    /\ upCloseCalls' = upCloseCalls + 1
    /\ clientState' = CloseCalledOn(cl)
    /\ clientCloseCalls' = clientCloseCalls + 1
    /\ UNCHANGED closed

\* serverWS.on('message') with a text message handed over as a string:
\* 'start' sends Settings if the upstream is OPEN and none was sent,
\* 'stop' is safeClose() (dgWS.close, serverWS.close; no guard).
\* A text frame handed over as a Buffer fails the typeof data === 'string'
\* test and takes the audio path.
VB_ClientText ==
    /\ bridge = "vb"
    /\ clientState \in {"OPEN", "CLOSING"}
    /\ upState # "NONE"
    /\ nClientMsgs < MaxClientMsgs
    /\ nClientMsgs' = nClientMsgs + 1
    /\ \E kind \in TextKinds, asString \in TextAsString, n \in TextSizes :
         /\ lastEvt' = kind
         /\ CASE ~asString ->
                   /\ clientOut' = << >>
                   /\ IF upState # "OPEN"
                      THEN UNCHANGED << preFrames, pushedLog, rxBytes, upWire, nThrows,
                                        textBufs >>
                      ELSE /\ textBufs' = textBufs \cup {Buf(rxBytes, n)}
                           /\ VB_AudioIn(n)
                   /\ UNCHANGED << settingsSent, upState, clientState, upCloseCalls,
                                   clientCloseCalls, closed >>
              [] asString /\ kind = "start" ->
                   /\ IF upState = "OPEN" /\ ~settingsSent
                      THEN \E outcome \in SendOutcomes(upState) :
                             LET r == VB_sendSettings(outcome)
                             IN  /\ settingsSent' = r.sent
                                 /\ upWire' = r.wire
                                 /\ nThrows' = IF r.threw THEN nThrows + 1 ELSE nThrows
                                 /\ clientOut' = ToClient(r.out)
                      ELSE /\ clientOut' = << >>
                           /\ UNCHANGED << settingsSent, upWire, nThrows >>
                   /\ UNCHANGED << upState, clientState, upCloseCalls, clientCloseCalls,
                                   closed, preFrames, pushedLog, rxBytes, textBufs >>
              [] asString /\ kind = "stop" ->
                   /\ VB_safeClose(upState, clientState)
                   /\ clientOut' = << >>
                   /\ UNCHANGED << settingsSent, upWire, nThrows, preFrames, pushedLog,
                                   rxBytes, textBufs >>
              [] asString /\ kind = "other" ->
                   /\ clientOut' = << >>
                   /\ UNCHANGED << settingsSent, upWire, nThrows, upState, clientState,
                                   upCloseCalls, clientCloseCalls, closed, preFrames,
                                   pushedLog, rxBytes, textBufs >>
    /\ UNCHANGED << bridge, hasKey, settingsApplied, micBuf,
                    pingTimer, nUpMsgs, lostBytes, nFrames, lastDrain, upEvents >>
    /\ CountClientErrors
    /\ UNCHANGED sessionVars
    /\ UNCHANGED gateVars

NextVB ==
    \/ VB_Connection
    \/ VB_UpstreamOpen
    \/ VB_UpstreamMessage
    \/ VB_ClientBinary
    \/ VB_ClientText

\* dgWS.on('close')
VB_UpstreamClose ==
    /\ bridge = "vb"
    /\ lastEvt' = "upstreamClose"
    /\ upState \in {"CONNECTING", "OPEN", "CLOSING"}
    /\ VB_safeClose("CLOSED", clientState)
    /\ clientOut' = << >>
    /\ pingTimer' = FALSE
    /\ UNCHANGED << textBufs, bridge, hasKey, settingsSent, settingsApplied,
                    preFrames, micBuf, upWire, nClientMsgs, nUpMsgs, nThrows,
                    rxBytes, lostBytes, nFrames, pushedLog, lastDrain, upEvents >>
    /\ CountClientErrors
    /\ logged' = Append(logged, "intake_final")
    /\ UNCHANGED << intake, isAlive, unansweredPings, nCalls, lastIn >>
    /\ UNCHANGED gateVars

\* dgWS.on('error'); the socket emits 'close' after it
VB_UpstreamError ==
    /\ bridge = "vb"
    /\ lastEvt' = "upstreamError"
    /\ upState \in {"CONNECTING", "OPEN", "CLOSING"}
    /\ "error" \notin upEvents
    /\ upEvents' = upEvents \cup {"error"}
    /\ upState' = "CLOSING"
    /\ clientOut' = ToClient(<< "error" >>)
    /\ UNCHANGED << textBufs, bridge, hasKey, clientState, settingsSent,
                    settingsApplied, closed, preFrames, micBuf, pingTimer, upWire,
                    upCloseCalls, clientCloseCalls, nClientMsgs, nUpMsgs, nThrows,
                    rxBytes, lostBytes, nFrames, pushedLog, lastDrain >>
    /\ CountClientErrors
    /\ UNCHANGED sessionVars
    /\ UNCHANGED gateVars

\* serverWS.on('close')
VB_ClientClose ==
    /\ bridge = "vb"
    /\ lastEvt' = "clientClose"
    /\ upState # "NONE"
    /\ clientState \in {"OPEN", "CLOSING"}
    /\ VB_safeClose(upState, "CLOSED")
    /\ clientOut' = << >>
    /\ UNCHANGED << textBufs, bridge, hasKey, settingsSent, settingsApplied,
                    preFrames, micBuf, pingTimer, upWire, nClientMsgs, nUpMsgs,
                    nThrows, rxBytes, lostBytes, nFrames, pushedLog, lastDrain,
                    upEvents >>
    /\ CountClientErrors
    /\ UNCHANGED sessionVars
    /\ UNCHANGED gateVars

\* serverWS.on('error'); the socket emits 'close' after it
VB_ClientError ==
    /\ bridge = "vb"
    /\ lastEvt' = "clientError"
    /\ upState # "NONE"
    /\ clientState = "OPEN"
    /\ VB_safeClose(upState, "CLOSING")
    /\ clientOut' = << >>
    /\ UNCHANGED << textBufs, bridge, hasKey, settingsSent, settingsApplied,
                    preFrames, micBuf, pingTimer, upWire, nClientMsgs, nUpMsgs,
                    nThrows, rxBytes, lostBytes, nFrames, pushedLog, lastDrain,
                    upEvents >>
    /\ CountClientErrors
    /\ UNCHANGED sessionVars
    /\ UNCHANGED gateVars

NextVBTeardown ==
    \/ VB_UpstreamClose
    \/ VB_UpstreamError
    \/ VB_ClientClose
    \/ VB_ClientError

SpecVBTeardown == InitBridge({"vb"}) /\ [][NextVB \/ NextVBTeardown]_vars

(* ------------------- client heartbeat of part_012 (boot) --------------- *)

\* Variant of VB_HeartbeatTick that pings again instead of terminating
VB_HeartbeatTick_NoTerminate ==
    /\ bridge = "vb"
    /\ clientState \in {"OPEN", "CLOSING"}
    /\ clientCloseCalls <= MaxTicks
    /\ lastEvt' = "heartbeatTick"
    /\ clientOut' = << >>
    /\ isAlive' = FALSE
    /\ unansweredPings' = 1
    /\ UNCHANGED << clientState, clientCloseCalls >>
    /\ UNCHANGED << textBufs, bridge, hasKey, upState, settingsSent, settingsApplied,
                    closed, preFrames, micBuf, pingTimer, upWire, upCloseCalls,
                    nClientMsgs, nUpMsgs, nThrows, rxBytes, lostBytes, nFrames,
                    pushedLog, lastDrain, upEvents >>
    /\ CountClientErrors
    /\ UNCHANGED << intake, logged, nCalls, lastIn >>
    /\ UNCHANGED gateVars

\* One tick of audioHeartbeatInterval for this client, which is in
\* wssAudio.clients until its 'close' event:
\*   if (ws.isAlive === false) return ws.terminate();
\*   ws.isAlive = false; try { ws.ping(); } catch {}
VB_HeartbeatTick ==
    /\ bridge = "vb"
    /\ clientState \in {"OPEN", "CLOSING"}
    /\ clientCloseCalls <= MaxTicks
    /\ lastEvt' = "heartbeatTick"
    /\ clientOut' = << >>
    /\ IF isAlive = FALSE
       THEN /\ clientState' = "CLOSING"
            /\ clientCloseCalls' = clientCloseCalls + 1
            /\ UNCHANGED << isAlive, unansweredPings >>
       ELSE /\ isAlive' = FALSE
            /\ unansweredPings' = 1
            /\ UNCHANGED << clientState, clientCloseCalls >>
    /\ UNCHANGED << textBufs, bridge, hasKey, upState, settingsSent, settingsApplied,
                    closed, preFrames, micBuf, pingTimer, upWire, upCloseCalls,
                    nClientMsgs, nUpMsgs, nThrows, rxBytes, lostBytes, nFrames,
                    pushedLog, lastDrain, upEvents >>
    /\ CountClientErrors
    /\ UNCHANGED << intake, logged, nCalls, lastIn >>
    /\ UNCHANGED gateVars

\* ws.on('pong', heartbeat): function heartbeat(){ this.isAlive = true; }
VB_Pong ==
    /\ bridge = "vb"
    /\ clientState = "OPEN"
    /\ lastEvt' = "pong"
    /\ clientOut' = << >>
    /\ isAlive' = TRUE
    /\ unansweredPings' = 0
    /\ UNCHANGED << textBufs, bridge, hasKey, upState, clientState, settingsSent,
                    settingsApplied, closed, preFrames, micBuf, pingTimer, upWire,
                    upCloseCalls, clientCloseCalls, nClientMsgs, nUpMsgs, nThrows,
                    rxBytes, lostBytes, nFrames, pushedLog, lastDrain, upEvents >>
    /\ CountClientErrors
    /\ UNCHANGED << intake, logged, nCalls, lastIn >>
    /\ UNCHANGED gateVars

\* A connection of part_012 under the heartbeat, from creation to teardown
SpecHeartbeat ==
    InitBridge({"vb"})
        /\ [][\/ VB_Connection \/ VB_UpstreamOpen \/ VB_ClientBinary
              \/ VB_HeartbeatTick \/ VB_Pong \/ NextVBTeardown]_vars

\* a leg has closed or close has been called on a leg
TeardownBegun ==
    \/ clientState # "OPEN"
    \/ upState \in {"CLOSING", "CLOSED"}
    \/ upCloseCalls > 0
    \/ clientCloseCalls > 0

\* Connections of src/index.js and part_012 from creation to teardown. Once
\* a socket is closing, errored, or has lost its peer, it emits 'close': the
\* handler of the upstream 'close' event runs eventually.
SpecFinalLog ==
    /\ InitBridge({"js", "vb"})
    /\ [][\/ JS_Connection \/ JS_UpstreamOpen \/ JS_BrowserBinary \/ NextJSTeardown
          \/ VB_Connection \/ VB_UpstreamOpen \/ VB_ClientBinary \/ NextVBTeardown]_vars
    /\ WF_vars(TeardownBegun /\ JS_UpstreamClose)
    /\ WF_vars(TeardownBegun /\ VB_UpstreamClose)

KeepAlive == [kind |-> "KeepAlive", off |-> 0, len |-> 0]

KeepAlivesOnWire == Len(SelectSeq(upWire, LAMBDA m : m.kind = "KeepAlive"))

\* the callback of  const keepalive = setInterval(..., 25000)
JS_KeepaliveTick ==
    /\ bridge = "js"
    /\ pingTimer
    /\ lastEvt' = "keepalive"
    /\ clientOut' = << >>
    /\ IF upState = "OPEN"
       THEN /\ KeepAlivesOnWire < MaxTicks
            /\ \E outcome \in SendOutcomes(upState) :
                 /\ upWire' = IF outcome = "ok" THEN Append(upWire, KeepAlive) ELSE upWire
                 /\ nThrows' = IF outcome = "throw" THEN nThrows + 1 ELSE nThrows
       ELSE UNCHANGED << upWire, nThrows >>
    /\ UNCHANGED << textBufs, bridge, hasKey, upState, clientState, settingsSent,
                    settingsApplied, closed, preFrames, micBuf, pingTimer, upCloseCalls,
                    clientCloseCalls, nClientMsgs, nUpMsgs, rxBytes, lostBytes, nFrames,
                    pushedLog, lastDrain, upEvents >>
    /\ CountClientErrors
    /\ UNCHANGED sessionVars
    /\ UNCHANGED gateVars

\* A connection of src/index.js with its keepalive timer, from creation to
\* teardown; a socket in teardown emits 'close'
SpecKeepalive ==
    /\ InitBridge({"js"})
    /\ [][\/ JS_Connection \/ JS_UpstreamOpen \/ JS_BrowserBinary \/ JS_KeepaliveTick
          \/ NextJSTeardown]_vars
    /\ WF_vars(TeardownBegun /\ JS_UpstreamClose)

SpecVB == InitBridge({"vb"}) /\ [][NextVB]_vars

(* ================== createVoiceBridge, src/index.cjs =================== *)
\* readyForAudio is held in settingsApplied; this bridge keeps no settingsSent,
\* preFrames or micBuf.

\* createVoiceBridge: missing key -> close(1011), else new WebSocket(dgUrl)
CJS_Connection ==
    /\ bridge = "cjs"
    /\ lastEvt' = "connection"
    /\ upState = "NONE"
    /\ clientState = "OPEN"
    /\ clientCloseCalls = 0
    /\ IF ~hasKey
       THEN /\ clientState' = ClientCloseCalled
            /\ clientCloseCalls' = clientCloseCalls + 1
            /\ UNCHANGED upState
       ELSE /\ upState' = "CONNECTING"
            /\ UNCHANGED << clientState, clientCloseCalls >>
    /\ clientOut' = << >>
    /\ UNCHANGED << textBufs, bridge, hasKey, settingsSent, settingsApplied, closed, preFrames,
                    micBuf, pingTimer, upWire, upCloseCalls, nClientMsgs, nUpMsgs,
                    nThrows, rxBytes, lostBytes, nFrames, pushedLog, lastDrain, upEvents >>
    /\ CountClientErrors
    /\ UNCHANGED sessionVars
    /\ UNCHANGED gateVars

\* const sendSettings = () => { try { dgWS.send(settings) } catch {} }
CJS_sendSettings(outcome) ==
    [wire |-> IF outcome = "ok" THEN Append(upWire, Settings) ELSE upWire,
     threw |-> outcome = "throw"]

\* dgWS.on('open')
CJS_UpstreamOpen ==
    /\ bridge = "cjs"
    /\ lastEvt' = "open"
    /\ upState = "CONNECTING"
    /\ upState' = "OPEN"
    /\ \E outcome \in SendOutcomes("OPEN") :
         LET r == CJS_sendSettings(outcome)
         IN  /\ upWire' = r.wire
             /\ nThrows' = IF r.threw THEN nThrows + 1 ELSE nThrows
    /\ clientOut' = << >>
    /\ UNCHANGED << textBufs, bridge, hasKey, clientState, settingsSent, settingsApplied, closed,
                    preFrames, micBuf, pingTimer, upCloseCalls, clientCloseCalls,
                    nClientMsgs, nUpMsgs, rxBytes, lostBytes, nFrames, pushedLog,
                    lastDrain, upEvents >>
    /\ CountClientErrors
    /\ UNCHANGED sessionVars
    /\ UNCHANGED gateVars

\* dgWS.on('message'). Only a message handed over as a string is parsed as
\* a JSON event; a JSON event handed over as a Buffer fails the
\* typeof data === 'string' test and is forwarded to the client as binary.
CJS_UpstreamMessage ==
    /\ bridge = "cjs"
    /\ upState \in {"OPEN", "CLOSING"}
    /\ nUpMsgs < MaxUpMsgs
    /\ nUpMsgs' = nUpMsgs + 1
    /\ \E kind \in UpKinds, asString \in TextAsString :
         /\ lastEvt' = kind
         /\ kind = "SettingsApplied" => UpstreamHasSettings
         /\ CASE kind = "Binary" \/ ~asString ->
                   /\ clientOut' = ToClient(<< "tts" >>)
                   /\ UNCHANGED << settingsApplied, upEvents >>
              [] asString /\ kind = "Welcome" ->
                   /\ clientOut' = << >>
                   /\ UNCHANGED << settingsApplied, upEvents >>
              [] asString /\ kind = "SettingsApplied" ->
                   /\ settingsApplied' = TRUE
                   /\ upEvents' = upEvents \cup {"SettingsApplied"}
                   /\ clientOut' = ToClient(<< "state" >>)
              [] asString /\ kind = "Other" ->
                   /\ clientOut' = << >>
                   /\ UNCHANGED << settingsApplied, upEvents >>
    /\ UNCHANGED << textBufs, bridge, hasKey, upState, clientState, settingsSent, closed,
                    preFrames, micBuf, pingTimer, upWire, upCloseCalls,
                    clientCloseCalls, nClientMsgs, nThrows, rxBytes, lostBytes,
                    nFrames, pushedLog, lastDrain >>
    /\ CountClientErrors
    /\ UNCHANGED sessionVars
    /\ UNCHANGED gateVars

\* The audio path of serverWS.on('message') for a message of n bytes:
\* sent as it is if the upstream is OPEN and readyForAudio, else dropped
CJS_AudioIn(n) ==
    IF upState = "OPEN" /\ settingsApplied
    THEN /\ rxBytes' = rxBytes + n
         /\ \E okCount \in OkCounts(1) :
              /\ upWire' = upWire \o
                             [i \in 1..okCount |-> Audio(Buf(rxBytes + lostBytes, n))]
              /\ nThrows' = IF okCount < 1 THEN nThrows + 1 ELSE nThrows
         /\ UNCHANGED lostBytes
    ELSE /\ lostBytes' = lostBytes + n
         /\ UNCHANGED << upWire, nThrows, rxBytes >>

\* serverWS.on('message') with a binary message of n bytes
CJS_ClientBinary ==
    /\ bridge = "cjs"
    /\ lastEvt' = "clientBinary"
    /\ clientState \in {"OPEN", "CLOSING"}
    /\ upState # "NONE"
    /\ nClientMsgs < MaxClientMsgs
    /\ nClientMsgs' = nClientMsgs + 1
    /\ clientOut' = << >>
    /\ \E n \in ChunkSizes : CJS_AudioIn(n)
    /\ UNCHANGED << textBufs, bridge, hasKey, upState, clientState, settingsSent, settingsApplied,
                    closed, preFrames, micBuf, pingTimer, upCloseCalls, clientCloseCalls,
                    nUpMsgs, nFrames, pushedLog, lastDrain, upEvents >>
    /\ CountClientErrors
    /\ UNCHANGED sessionVars
    /\ UNCHANGED gateVars

\* function safeClose() of src/index.cjs, run with the upstream socket in state up
\* and the client socket in state cl: once per connection (closed),
\* dgWS.close(1000) and serverWS.close(1000)
CJS_safeClose(up, cl) ==
    IF closed
    THEN /\ upState' = up
         /\ clientState' = cl
         /\ UNCHANGED << upCloseCalls, clientCloseCalls, closed >>
    ELSE /\ closed' = TRUE
         /\ upState' = CloseCalledOn(up)
         /\ upCloseCalls' = upCloseCalls + 1
         /\ clientState' = CloseCalledOn(cl)
         /\ clientCloseCalls' = clientCloseCalls + 1

\* serverWS.on('message') with a text message handed over as a string:
\* 'start' sends Settings if the upstream is OPEN and not readyForAudio,
\* 'stop' is safeClose().
\* A text frame handed over as a Buffer fails the typeof data === 'string'
\* test and takes the audio path.
CJS_ClientText ==
    /\ bridge = "cjs"
    /\ clientState \in {"OPEN", "CLOSING"}
    /\ upState # "NONE"
    /\ nClientMsgs < MaxClientMsgs
    /\ nClientMsgs' = nClientMsgs + 1
    /\ clientOut' = << >>
    /\ \E kind \in TextKinds, asString \in TextAsString, n \in TextSizes :
         /\ lastEvt' = kind
         /\ CASE ~asString ->
                   /\ textBufs' = IF upState = "OPEN" /\ settingsApplied
                                  THEN textBufs \cup {Buf(rxBytes + lostBytes, n)}
                                  ELSE textBufs
                   /\ CJS_AudioIn(n)
                   /\ UNCHANGED << upState, clientState, upCloseCalls, clientCloseCalls,
                                   closed >>
              [] asString /\ kind = "start" ->
                   /\ IF upState = "OPEN" /\ ~settingsApplied
                      THEN \E outcome \in SendOutcomes(upState) :
                             LET r == CJS_sendSettings(outcome)
                             IN  /\ upWire' = r.wire
                                 /\ nThrows' = IF r.threw THEN nThrows + 1 ELSE nThrows
                      ELSE UNCHANGED << upWire, nThrows >>
                   /\ UNCHANGED << upState, clientState, upCloseCalls, clientCloseCalls,
                                   closed, rxBytes, lostBytes, textBufs >>
              [] asString /\ kind = "stop" ->
                   /\ CJS_safeClose(upState, clientState)
                   /\ UNCHANGED << upWire, nThrows, rxBytes, lostBytes, textBufs >>
              [] asString /\ kind = "other" ->
                   UNCHANGED << upWire, nThrows, upState, clientState, upCloseCalls,
                                clientCloseCalls, closed, rxBytes, lostBytes, textBufs >>
    /\ UNCHANGED << bridge, hasKey, settingsSent, settingsApplied, preFrames, micBuf,
                    pingTimer, nUpMsgs, nFrames, pushedLog, lastDrain, upEvents >>
    /\ CountClientErrors
    /\ UNCHANGED sessionVars
    /\ UNCHANGED gateVars

NextCJS ==
    \/ CJS_Connection
    \/ CJS_UpstreamOpen
    \/ CJS_UpstreamMessage
    \/ CJS_ClientBinary
    \/ CJS_ClientText

\* dgWS.on('close')
CJS_UpstreamClose ==
    /\ bridge = "cjs"
    /\ lastEvt' = "upstreamClose"
    /\ upState \in {"CONNECTING", "OPEN", "CLOSING"}
    /\ CJS_safeClose("CLOSED", clientState)
    /\ clientOut' = << >>
    /\ UNCHANGED << textBufs, bridge, hasKey, settingsSent, settingsApplied,
                    preFrames, micBuf, pingTimer, upWire, nClientMsgs, nUpMsgs,
                    nThrows, rxBytes, lostBytes, nFrames, pushedLog, lastDrain,
                    upEvents >>
    /\ CountClientErrors
    /\ UNCHANGED sessionVars
    /\ UNCHANGED gateVars

\* dgWS.on('error'); the socket emits 'close' after it
CJS_UpstreamError ==
    /\ bridge = "cjs"
    /\ lastEvt' = "upstreamError"
    /\ upState \in {"CONNECTING", "OPEN", "CLOSING"}
    /\ "error" \notin upEvents
    /\ upEvents' = upEvents \cup {"error"}
    /\ upState' = "CLOSING"
    /\ clientOut' = ToClient(<< "error" >>)
    /\ UNCHANGED << textBufs, bridge, hasKey, clientState, settingsSent,
                    settingsApplied, closed, preFrames, micBuf, pingTimer, upWire,
                    upCloseCalls, clientCloseCalls, nClientMsgs, nUpMsgs, nThrows,
                    rxBytes, lostBytes, nFrames, pushedLog, lastDrain >>
    /\ CountClientErrors
    /\ UNCHANGED sessionVars
    /\ UNCHANGED gateVars

\* serverWS.on('close')
CJS_ClientClose ==
    /\ bridge = "cjs"
    /\ lastEvt' = "clientClose"
    /\ upState # "NONE"
    /\ clientState \in {"OPEN", "CLOSING"}
    /\ CJS_safeClose(upState, "CLOSED")
    /\ clientOut' = << >>
    /\ UNCHANGED << textBufs, bridge, hasKey, settingsSent, settingsApplied,
                    preFrames, micBuf, pingTimer, upWire, nClientMsgs, nUpMsgs,
                    nThrows, rxBytes, lostBytes, nFrames, pushedLog, lastDrain,
                    upEvents >>
    /\ CountClientErrors
    /\ UNCHANGED sessionVars
    /\ UNCHANGED gateVars

\* serverWS.on('error'); the socket emits 'close' after it
CJS_ClientError ==
    /\ bridge = "cjs"
    /\ lastEvt' = "clientError"
    /\ upState # "NONE"
    /\ clientState = "OPEN"
    /\ CJS_safeClose(upState, "CLOSING")
    /\ clientOut' = << >>
    /\ UNCHANGED << textBufs, bridge, hasKey, settingsSent, settingsApplied,
                    preFrames, micBuf, pingTimer, upWire, nClientMsgs, nUpMsgs,
                    nThrows, rxBytes, lostBytes, nFrames, pushedLog, lastDrain,
                    upEvents >>
    /\ CountClientErrors
    /\ UNCHANGED sessionVars
    /\ UNCHANGED gateVars

NextCJSTeardown ==
    \/ CJS_UpstreamClose
    \/ CJS_UpstreamError
    \/ CJS_ClientClose
    \/ CJS_ClientError

SpecCJS == InitBridge({"cjs"}) /\ [][NextCJS]_vars

\* One connection of a bridge whose safeClose is guarded, with its teardown
SpecSafeClose ==
    InitBridge({"js", "cjs"})
      /\ [][NextJS \/ NextJSTeardown \/ NextCJS \/ NextCJSTeardown]_vars

\* One connection of either createVoiceBridge, from creation to teardown
SpecVoiceBridgeTeardown ==
    InitBridge({"vb", "cjs"})
        /\ [][NextVB \/ NextVBTeardown \/ NextCJS \/ NextCJSTeardown]_vars

\* One connection of a bridge that answers a missing credential
SpecMissingKey ==
    InitBridge({"live", "js", "cjs"}) /\ [][NextLive \/ NextJS \/ NextCJS]_vars

(* ====== setupWebDemoLive with the greeting gate, src/unnamed/part_008 ==== *)

\* process.env.VOICE_1_TTS .. VOICE_3_TTS of a deployment that defines them
VoiceEnv == [v \in 1..3 |-> "VOICE_" \o ToString(v) \o "_TTS"]

\* function resolveVoiceById(voiceId)
resolveVoiceById(v) == VoiceEnv[v]

\* The voiceIds a 'start' message may carry
StartVoiceIds == {1, 2, 3}

SystemMessage == [kind |-> "SystemMessage", off |-> 0, len |-> 0]
SilenceFrame == [kind |-> "silence", off |-> 0, len |-> BYTES_PER_FRAME]
GateKeepAlive == [kind |-> "KeepAlive", off |-> 0, len |-> 0]
GateSettings(voice) == [kind |-> "Settings", off |-> 0, len |-> 0, voice |-> voice]

\* Frames the two interval callbacks have put on the wire
TicksOnWire ==
    Cardinality({i \in DOMAIN upWire : upWire[i].kind \in {"silence", "KeepAlive"}})

\* wss.on("connection"): the per-connection state, the missing-key exit
\* (safeClose runs before agentWS is initialised, so its agentWS.close throws
\* inside the try block), the upstream socket, the state timer and the meter
Gate_Connection ==
    /\ bridge = "gate"
    /\ lastEvt' = "connection"
    /\ upState = "NONE"
    /\ clientState = "OPEN"
    /\ ~closed
    /\ IF ~hasKey
       THEN /\ clientOut' = ToClient(<< "error" >>)
            /\ closed' = TRUE
            /\ clientState' = CloseCalledOn(clientState)
            /\ clientCloseCalls' = clientCloseCalls + 1
            /\ logged' = Append(logged, "intake_final")
            /\ UNCHANGED << upState, stateTimer, meter >>
       ELSE /\ upState' = "CONNECTING"
            /\ stateTimer' = TRUE
            /\ meter' = TRUE
            /\ clientOut' = << >>
            /\ UNCHANGED << closed, clientState, clientCloseCalls, logged >>
    /\ UNCHANGED << textBufs, bridge, hasKey, settingsSent, settingsApplied, preFrames,
                    micBuf, pingTimer, upWire, upCloseCalls, nClientMsgs, nUpMsgs,
                    nThrows, rxBytes, lostBytes, nFrames, pushedLog, lastDrain, upEvents >>
    /\ CountClientErrors
    /\ UNCHANGED << intake, isAlive, unansweredPings, nCalls, lastIn >>
    /\ UNCHANGED << allowMicToDG, speaking, lastTtsAt, silenceTimer, voiceId,
                    startVoices, greetingEnded >>

\* function sendSettings(), run with voiceId = vid: the effect on
\* (settingsSent, upWire, clientOut) for one outcome of agentWS.send
Gate_sendSettings(wire, vid, outcome) ==
    IF settingsSent
    THEN [sent |-> settingsSent, wire |-> wire, out |-> << >>, threw |-> FALSE]
    ELSE IF outcome = "throw"
         THEN [sent |-> FALSE, wire |-> wire, out |-> << >>, threw |-> TRUE]
         ELSE [sent |-> TRUE,
               wire |-> IF outcome = "ok"
                        THEN Append(wire, GateSettings(resolveVoiceById(vid)))
                        ELSE wire,
               out |-> << "settings" >>, threw |-> FALSE]

\* agentWS.on("open"): the system message, sendSettings, the keepalive timer.
\* A socket that throws on the first send throws on the second.
Gate_UpstreamOpen ==
    /\ bridge = "gate"
    /\ lastEvt' = "open"
    /\ upState = "CONNECTING"
    /\ upState' = "OPEN"
    /\ pingTimer' = TRUE
    /\ \E outcome \in SendOutcomes("OPEN") :
         LET wire0 == IF outcome = "ok" THEN Append(upWire, SystemMessage) ELSE upWire
             r == Gate_sendSettings(wire0, voiceId, outcome)
         IN  /\ settingsSent' = r.sent
             /\ upWire' = r.wire
             /\ clientOut' = ToClient(r.out)
             /\ nThrows' = IF outcome = "throw" THEN nThrows + 1 ELSE nThrows
    /\ UNCHANGED << textBufs, bridge, hasKey, clientState, settingsApplied, closed, preFrames,
                    micBuf, upCloseCalls, clientCloseCalls, nClientMsgs, nUpMsgs,
                    rxBytes, lostBytes, nFrames, pushedLog, lastDrain, upEvents >>
    /\ CountClientErrors
    /\ UNCHANGED sessionVars
    /\ UNCHANGED gateVars

\* agentWS.on("message"): binary TTS marks speaking; Welcome resends Settings;
\* SettingsApplied closes the gate and starts the silence pump (preFrames is
\* left as it is); "Other" is a transcript event with text.
Gate_UpstreamMessage ==
    /\ bridge = "gate"
    /\ upState \in {"OPEN", "CLOSING"}
    /\ nUpMsgs < MaxUpMsgs
    /\ nUpMsgs' = nUpMsgs + 1
    /\ \E kind \in UpKinds :
         /\ lastEvt' = kind
         /\ CASE kind = "Binary" ->
                   /\ speaking' = "true"
                   /\ lastTtsAt' = "recent"
                   /\ clientOut' = ToClient(<< "tts" >>)
                   /\ UNCHANGED << settingsSent, settingsApplied, upWire, nThrows,
                                   allowMicToDG, silenceTimer, greetingEnded >>
              [] kind = "Welcome" ->
                   \E outcome \in SendOutcomes(upState) :
                     LET r == Gate_sendSettings(upWire, voiceId, outcome)
                     IN  /\ settingsSent' = r.sent
                         /\ upWire' = r.wire
                         /\ nThrows' = IF r.threw THEN nThrows + 1 ELSE nThrows
                         /\ clientOut' = ToClient(r.out)
                         /\ UNCHANGED << settingsApplied, speaking, lastTtsAt,
                                         allowMicToDG, silenceTimer, greetingEnded >>
              [] kind = "SettingsApplied" ->
                   /\ UpstreamHasSettings
                   /\ settingsApplied' = TRUE
                   /\ allowMicToDG' = FALSE
                   /\ silenceTimer' = TRUE
                   /\ greetingEnded' = FALSE
                   /\ clientOut' = << >>
                   /\ UNCHANGED << settingsSent, upWire, nThrows, speaking, lastTtsAt >>
              [] kind = "Other" ->
                   /\ clientOut' = ToClient(<< "transcript" >>)
                   /\ UNCHANGED << settingsSent, settingsApplied, upWire, nThrows,
                                   speaking, lastTtsAt, allowMicToDG, silenceTimer,
                                   greetingEnded >>
    /\ UNCHANGED << textBufs, bridge, hasKey, upState, clientState, closed, micBuf, pingTimer,
                    upCloseCalls, clientCloseCalls, nClientMsgs, rxBytes, lostBytes,
                    nFrames, preFrames, pushedLog, lastDrain, upEvents >>
    /\ CountClientErrors
    /\ UNCHANGED sessionVars
    /\ UNCHANGED << stateTimer, meter, voiceId, startVoices >>

\* const speakingNow = lastTtsAt && (now - lastTtsAt) < 300: the number 0
\* while lastTtsAt is 0, otherwise the boolean of the comparison
speakingNow ==
    CASE lastTtsAt = "never" -> "zero"
      [] lastTtsAt = "recent" -> "true"
      [] lastTtsAt = "stale" -> "false"

\* The callback of stateTimer (every 100 ms): speaking !== speakingNow is the
\* strict comparison, so false and 0 differ.
Gate_StateTick ==
    /\ bridge = "gate"
    /\ lastEvt' = "stateTick"
    /\ stateTimer
    /\ IF speaking # speakingNow
       THEN /\ speaking' = speakingNow
            /\ clientOut' = ToClient(<< "state" >>)
            /\ IF speakingNow # "true"
               THEN /\ silenceTimer' = FALSE
                    /\ allowMicToDG' = TRUE
                    /\ greetingEnded' = (greetingEnded \/ speaking = "true")
               ELSE UNCHANGED << silenceTimer, allowMicToDG, greetingEnded >>
       ELSE /\ clientOut' = << >>
            /\ UNCHANGED << speaking, silenceTimer, allowMicToDG, greetingEnded >>
    /\ UNCHANGED << textBufs, bridge, hasKey, upState, clientState, settingsSent,
                    settingsApplied, closed, preFrames, micBuf, pingTimer, upWire,
                    upCloseCalls, clientCloseCalls, nClientMsgs, nUpMsgs, nThrows,
                    rxBytes, lostBytes, nFrames, pushedLog, lastDrain, upEvents >>
    /\ CountClientErrors
    /\ UNCHANGED sessionVars
    /\ UNCHANGED << lastTtsAt, stateTimer, meter, voiceId, startVoices >>

\* 300 ms go by without TTS audio from the upstream
Gate_TtsGap ==
    /\ bridge = "gate"
    /\ lastEvt' = "ttsGap"
    /\ lastTtsAt = "recent"
    /\ lastTtsAt' = "stale"
    /\ clientOut' = << >>
    /\ UNCHANGED << textBufs, bridge, hasKey, upState, clientState, settingsSent,
                    settingsApplied, closed, preFrames, micBuf, pingTimer, upWire,
                    upCloseCalls, clientCloseCalls, nClientMsgs, nUpMsgs, nThrows,
                    rxBytes, lostBytes, nFrames, pushedLog, lastDrain, upEvents >>
    /\ CountClientErrors
    /\ UNCHANGED sessionVars
    /\ UNCHANGED << allowMicToDG, speaking, silenceTimer, stateTimer, meter, voiceId,
                    startVoices, greetingEnded >>

\* The callback of silenceTimer (every 20 ms): a frame of zeros while the
\* upstream is OPEN
Gate_SilenceTick ==
    /\ bridge = "gate"
    /\ lastEvt' = "silenceTick"
    /\ silenceTimer
    /\ TicksOnWire < MaxTicks
    /\ upState = "OPEN"
    /\ upWire' = Append(upWire, SilenceFrame)
    /\ clientOut' = << >>
    /\ UNCHANGED << textBufs, bridge, hasKey, upState, clientState, settingsSent,
                    settingsApplied, closed, preFrames, micBuf, pingTimer,
                    upCloseCalls, clientCloseCalls, nClientMsgs, nUpMsgs, nThrows,
                    rxBytes, lostBytes, nFrames, pushedLog, lastDrain, upEvents >>
    /\ CountClientErrors
    /\ UNCHANGED sessionVars
    /\ UNCHANGED gateVars

\* The callback of keepalive (every 25 s): a KeepAlive message while the
\* upstream is OPEN
Gate_KeepaliveTick ==
    /\ bridge = "gate"
    /\ lastEvt' = "keepaliveTick"
    /\ pingTimer
    /\ TicksOnWire < MaxTicks
    /\ upState = "OPEN"
    /\ upWire' = Append(upWire, GateKeepAlive)
    /\ clientOut' = << >>
    /\ UNCHANGED << textBufs, bridge, hasKey, upState, clientState, settingsSent,
                    settingsApplied, closed, preFrames, micBuf, pingTimer,
                    upCloseCalls, clientCloseCalls, nClientMsgs, nUpMsgs, nThrows,
                    rxBytes, lostBytes, nFrames, pushedLog, lastDrain, upEvents >>
    /\ CountClientErrors
    /\ UNCHANGED sessionVars
    /\ UNCHANGED gateVars

\* Variant of Gate_FrameStep that queues the frames that arrive while the gate is closed
Gate_FrameStep_QueuesWhileGated(s, ready, allow) ==
    LET frame == Subarray(s.micBuf, 0, BYTES_PER_FRAME)
        rest == Subarray(s.micBuf, BYTES_PER_FRAME, s.micBuf.len)
    IN  IF ~ready \/ ~allow
        THEN [s EXCEPT !.micBuf = rest,
                       !.preFrames = PrerollPush(@, frame),
                       !.pushed = Append(@, frame),
                       !.n = @ + 1]
        ELSE [s EXCEPT !.micBuf = rest, !.live = Append(@, frame), !.n = @ + 1]

\* One pass of the frame loop: queue while !settingsSent || !settingsApplied,
\* send while allowMicToDG, otherwise drop the frame
Gate_FrameStep(s, ready, allow) ==
    LET frame == Subarray(s.micBuf, 0, BYTES_PER_FRAME)
        rest == Subarray(s.micBuf, BYTES_PER_FRAME, s.micBuf.len)
    IN  IF ~ready
        THEN [s EXCEPT !.micBuf = rest,
                       !.preFrames = PrerollPush(@, frame),
                       !.pushed = Append(@, frame),
                       !.n = @ + 1]
        ELSE IF allow
        THEN [s EXCEPT !.micBuf = rest, !.live = Append(@, frame), !.n = @ + 1]
        ELSE [s EXCEPT !.micBuf = rest, !.n = @ + 1]

\* while (micBuf.length >= BYTES_PER_FRAME) { ... }, the passes split in halves
RECURSIVE Gate_FrameLoop(_, _, _, _)
Gate_FrameLoop(s, ready, allow, fuel) ==
    IF fuel = 0 \/ ~(s.micBuf.len >= BYTES_PER_FRAME) THEN s
    ELSE IF fuel = 1 THEN Gate_FrameStep(s, ready, allow)
    ELSE Gate_FrameLoop(Gate_FrameLoop(s, ready, allow, fuel \div 2), ready, allow,
                        fuel - (fuel \div 2))

\* The binary path of browserWS.on("message") for n bytes, the upstream being
\* OPEN; each send of the loop has its own try block, and a frame whose send
\* throws is lost
Gate_AudioIn(n) ==
    LET buf == Buf(micBuf.off + micBuf.len, n)
        s0 == [micBuf |-> Concat(micBuf, buf), preFrames |-> preFrames,
               pushed |-> pushedLog, live |-> << >>, n |-> 0]
    IN  \E s \in {Gate_FrameLoop(s0, settingsSent /\ settingsApplied, allowMicToDG,
                                 s0.micBuf.len + 1)} :
          /\ micBuf' = s.micBuf
          /\ preFrames' = s.preFrames
          /\ pushedLog' = s.pushed
          /\ nFrames' = nFrames + s.n
          /\ rxBytes' = rxBytes + n
          /\ \E okCount \in OkCounts(Len(s.live)) :
               /\ upWire' = upWire \o [i \in 1..okCount |-> Audio(s.live[i])]
               /\ nThrows' = IF okCount < Len(s.live) THEN nThrows + 1 ELSE nThrows

\* browserWS.on("message") with a binary message
Gate_ClientBinary ==
    /\ bridge = "gate"
    /\ lastEvt' = "clientBinary"
    /\ clientState \in {"OPEN", "CLOSING"}
    /\ upState # "NONE"
    /\ nClientMsgs < MaxClientMsgs
    /\ nClientMsgs' = nClientMsgs + 1
    /\ clientOut' = << >>
    /\ \E n \in ChunkSizes :
         IF upState # "OPEN"
         THEN /\ lostBytes' = lostBytes + n
              /\ UNCHANGED << micBuf, preFrames, upWire, pushedLog, nFrames, nThrows,
                              rxBytes >>
         ELSE /\ Gate_AudioIn(n)
              /\ UNCHANGED lostBytes
    /\ UNCHANGED << textBufs, bridge, hasKey, upState, clientState, settingsSent,
                    settingsApplied, closed, pingTimer, upCloseCalls, clientCloseCalls,
                    nUpMsgs, lastDrain, upEvents >>
    /\ CountClientErrors
    /\ UNCHANGED sessionVars
    /\ UNCHANGED gateVars

\* browserWS.on("message") with the text message {type:"start", voiceId:v}.
\* Handed over as a string it sets voiceId and, while !settingsSent, calls
\* sendSettings (agentWS.send throws while the socket is CONNECTING); handed
\* over as a Buffer it fails the typeof test and takes the binary path.
Gate_ClientStart ==
    /\ bridge = "gate"
    /\ lastEvt' = "start"
    /\ clientState \in {"OPEN", "CLOSING"}
    /\ upState # "NONE"
    /\ nClientMsgs < MaxClientMsgs
    /\ nClientMsgs' = nClientMsgs + 1
    /\ \E asString \in TextAsString, v \in StartVoiceIds, n \in TextSizes :
         IF asString
         THEN /\ voiceId' = v
              /\ startVoices' = startVoices \cup {v}
              /\ \E outcome \in (IF upState = "CONNECTING" THEN {"throw"}
                                 ELSE SendOutcomes(upState)) :
                   LET r == Gate_sendSettings(upWire, v, outcome)
                   IN  /\ settingsSent' = r.sent
                       /\ upWire' = r.wire
                       /\ clientOut' = ToClient(r.out)
                       /\ nThrows' = IF r.threw /\ upState # "CONNECTING"
                                     THEN nThrows + 1 ELSE nThrows
              /\ UNCHANGED << micBuf, preFrames, pushedLog, nFrames, rxBytes, lostBytes,
                              textBufs >>
         ELSE /\ clientOut' = << >>
              /\ UNCHANGED << voiceId, startVoices, settingsSent >>
              /\ IF upState # "OPEN"
                 THEN /\ lostBytes' = lostBytes + n
                      /\ UNCHANGED << micBuf, preFrames, upWire, pushedLog, nFrames,
                                      nThrows, rxBytes, textBufs >>
                 ELSE /\ textBufs' = textBufs \cup {Buf(micBuf.off + micBuf.len, n)}
                      /\ Gate_AudioIn(n)
                      /\ UNCHANGED lostBytes
    /\ UNCHANGED << bridge, hasKey, upState, clientState, settingsApplied, closed,
                    pingTimer, upCloseCalls, clientCloseCalls, nUpMsgs, lastDrain,
                    upEvents >>
    /\ CountClientErrors
    /\ UNCHANGED sessionVars
    /\ UNCHANGED << allowMicToDG, speaking, lastTtsAt, silenceTimer, stateTimer, meter,
                    greetingEnded >>

\* The upstream events, the state timer and the client's audio
NextGate ==
    \/ Gate_Connection
    \/ Gate_UpstreamOpen
    \/ Gate_UpstreamMessage
    \/ Gate_StateTick
    \/ Gate_TtsGap
    \/ Gate_ClientBinary

\* The upstream events and the client's 'start' messages
NextGateStart ==
    \/ Gate_Connection
    \/ Gate_UpstreamOpen
    \/ Gate_UpstreamMessage
    \/ Gate_ClientStart

\* The upstream events and the interval timers
NextGateTimers ==
    \/ Gate_Connection
    \/ Gate_UpstreamOpen
    \/ Gate_UpstreamMessage
    \/ Gate_StateTick
    \/ Gate_TtsGap
    \/ Gate_SilenceTick
    \/ Gate_KeepaliveTick

\* function safeClose(), called with the socket states up and cl at the call
Gate_safeClose(up, cl) ==
    IF closed
    THEN /\ upState' = up
         /\ clientState' = cl
         /\ UNCHANGED << upCloseCalls, clientCloseCalls, closed, pingTimer, meter,
                         stateTimer, silenceTimer, logged >>
    ELSE /\ closed' = TRUE
         /\ pingTimer' = FALSE
         /\ meter' = FALSE
         /\ stateTimer' = FALSE
         /\ silenceTimer' = FALSE
         /\ upState' = CloseCalledOn(up)
         /\ upCloseCalls' = upCloseCalls + 1
         /\ clientState' = CloseCalledOn(cl)
         /\ clientCloseCalls' = clientCloseCalls + 1
         /\ logged' = Append(logged, "intake_final")

\* What a teardown handler leaves alone besides what safeClose sets
Gate_TeardownFrame ==
    /\ clientOut' = << >>
    /\ UNCHANGED << textBufs, bridge, hasKey, settingsSent, settingsApplied,
                    preFrames, micBuf, upWire, nClientMsgs, nUpMsgs, nThrows,
                    rxBytes, lostBytes, nFrames, pushedLog, lastDrain >>
    /\ CountClientErrors
    /\ UNCHANGED << intake, isAlive, unansweredPings, nCalls, lastIn >>
    /\ UNCHANGED << allowMicToDG, speaking, lastTtsAt, voiceId, startVoices,
                    greetingEnded >>

\* agentWS.on("close")
Gate_UpstreamClose ==
    /\ bridge = "gate"
    /\ lastEvt' = "upstreamClose"
    /\ upState \in {"CONNECTING", "OPEN", "CLOSING"}
    /\ Gate_safeClose("CLOSED", clientState)
    /\ UNCHANGED upEvents
    /\ Gate_TeardownFrame

\* agentWS.on("error"): logs; the socket emits 'close' after it
Gate_UpstreamError ==
    /\ bridge = "gate"
    /\ lastEvt' = "upstreamError"
    /\ upState \in {"CONNECTING", "OPEN", "CLOSING"}
    /\ "error" \notin upEvents
    /\ upEvents' = upEvents \cup {"error"}
    /\ upState' = "CLOSING"
    /\ UNCHANGED << clientState, upCloseCalls, clientCloseCalls, closed, pingTimer,
                    meter, stateTimer, silenceTimer, logged >>
    /\ Gate_TeardownFrame

\* browserWS.on("close")
Gate_ClientClose ==
    /\ bridge = "gate"
    /\ lastEvt' = "clientClose"
    /\ upState # "NONE"
    /\ clientState \in {"OPEN", "CLOSING"}
    /\ Gate_safeClose(upState, "CLOSED")
    /\ UNCHANGED upEvents
    /\ Gate_TeardownFrame

\* browserWS.on("error"): safeClose; the socket emits 'close' after it
Gate_ClientError ==
    /\ bridge = "gate"
    /\ lastEvt' = "clientError"
    /\ upState # "NONE"
    /\ clientState = "OPEN"
    /\ Gate_safeClose(upState, "CLOSING")
    /\ UNCHANGED upEvents
    /\ Gate_TeardownFrame

NextGateTeardown ==
    \/ Gate_UpstreamClose
    \/ Gate_UpstreamError
    \/ Gate_ClientClose
    \/ Gate_ClientError

\* A connection of the gated bridge that stays open
SpecGate == InitBridge({"gate"}) /\ [][NextGate]_vars

\* The 'start' message against the upstream 'open' and 'Welcome'
SpecGateStart == InitBridge({"gate"}) /\ [][NextGateStart]_vars

\* The interval timers against the teardown events
SpecGateTeardown == InitBridge({"gate"}) /\ [][NextGateTimers \/ NextGateTeardown]_vars

\* A connection that stays open, on which the server runs the connection
\* handler, the state timer fires while it is set, and time goes by
SpecGateFair ==
    /\ SpecGate
    /\ WF_vars(Gate_Connection)
    /\ WF_vars(Gate_StateTick)
    /\ WF_vars(Gate_TtsGap)

(* ============================== claims ================================ *)

AudioOnWire == SelectSeq(upWire, LAMBDA m : m.kind = "audio")
SettingsOnWire == SelectSeq(upWire, LAMBDA m : m.kind = "Settings")

\* the last n elements of a sequence
LastN(q, n) == SubSeq(q, Len(q) - n + 1, Len(q))
Min(a, b) == IF a < b THEN a ELSE b
IsPrefix(p, q) == Len(p) <= Len(q) /\ SubSeq(q, 1, Len(p)) = p

C2_NoAudioBeforeSettingsApplied ==
    (bridge = "vb" /\ Len(AudioOnWire) > 0) => "SettingsApplied" \in upEvents

\* C2 (amended): client audio is on the upstream wire only after a
\* SettingsApplied event was received, or after an upstream binary message
\* was received once Settings had been sent (which the bridge takes as the
\* acknowledgment).
C2_NoAudioBeforeAckOrAssumedAck ==
    (bridge = "vb" /\ Len(AudioOnWire) > 0) =>
        /\ settingsApplied
        /\ "SettingsApplied" \in upEvents \/ "BinaryAfterSettings" \in upEvents

\* C2 witness: queued client audio was flushed on an upstream binary message,
\* no SettingsApplied event having arrived.
C2_Witness ==
    /\ bridge = "vb" /\ lastEvt = "Binary" /\ upState = "OPEN"
    /\ "SettingsApplied" \notin upEvents
    /\ Len(lastDrain.sent) > 0 /\ Len(AudioOnWire) > 0

\* C3: in either setupWebDemoLive (web-demo-live.cjs, index.js) at most one
\* Settings message is on the upstream wire, whatever 'open' and 'Welcome'
\* events were handled.
C3_SettingsAtMostOnce ==
    bridge \in {"live", "js"} => Len(SettingsOnWire) <= 1

\* C3 witness: a Welcome was handled after the send at 'open' had succeeded.
C3_Witness ==
    /\ bridge = "js" /\ lastEvt = "Welcome" /\ nThrows = 0 /\ upState = "OPEN"
    /\ settingsSent /\ Len(SettingsOnWire) = 1

\* C4 (as claimed): in createVoiceBridge (index.cjs) Settings is not sent a
\* second time on one connection.
C4_SettingsNotSentTwice ==
    bridge = "cjs" => Len(SettingsOnWire) <= 1

\* C5: with the upstream OPEN at every client message, the bytes delivered
\* (N * 640 + r) have produced exactly N frames, each 640 bytes long and cut at
\* a multiple of 640 of the byte stream, and r bytes remain in micBuf.
C5_Framing ==
    (bridge = "live" /\ lostBytes = 0) =>
        /\ nFrames = rxBytes \div BYTES_PER_FRAME
        /\ micBuf.len = rxBytes % BYTES_PER_FRAME
        /\ micBuf.off = nFrames * BYTES_PER_FRAME
        /\ \A i \in DOMAIN pushedLog :
              pushedLog[i].len = BYTES_PER_FRAME /\ pushedLog[i].off % BYTES_PER_FRAME = 0
        /\ \A i \in DOMAIN upWire :
              upWire[i].kind = "audio" =>
                upWire[i].len = BYTES_PER_FRAME /\ upWire[i].off % BYTES_PER_FRAME = 0

\* C5 witness: one frame was cut from two chunks (300 + 640 bytes) and 300
\* bytes are held back.
C5_Witness ==
    bridge = "live" /\ lostBytes = 0 /\ rxBytes = 940 /\ nFrames = 1 /\ micBuf.len = 300

\* C6 (as claimed): until SettingsApplied arrives, every complete frame the
\* client has delivered was queued (pushed to preFrames), none discarded.
C6_NoFrameDiscardedBeforeAck ==
    (bridge = "live" /\ ~settingsApplied) =>
        Len(pushedLog) = (rxBytes + lostBytes) \div BYTES_PER_FRAME

\* C7 (as claimed): in createVoiceBridge (part_012) every audio unit in
\* preFrames or on the upstream wire is exactly one frame (640 bytes) long.
C7_EveryUnitIsOneFrame ==
    bridge = "vb" =>
        /\ \A i \in DOMAIN preFrames : preFrames[i].len = BYTES_PER_FRAME
        /\ \A i \in DOMAIN upWire :
              upWire[i].kind = "audio" => upWire[i].len = BYTES_PER_FRAME

\* C8: preFrames never holds more than MAX_PRE_FRAMES frames.
C8_PrerollBound == bridge = "live" => Len(preFrames) <= MAX_PRE_FRAMES

\* C8 witness: more than MAX_PRE_FRAMES frames were pushed and the queue is full.
C8_Witness ==
    bridge = "live" /\ Len(pushedLog) > MAX_PRE_FRAMES /\ Len(preFrames) = MAX_PRE_FRAMES

\* C9 (as claimed): a drain sends exactly the last min(k, 200) of the k frames
\* pushed before it, in push order.
C9_DrainSendsLastPushed ==
    (bridge = "live" /\ lastDrain # NoDrain) =>
        lastDrain.sent =
          [i \in 1..Min(Len(lastDrain.pushed), MAX_PRE_FRAMES) |->
             Audio(LastN(lastDrain.pushed, Min(Len(lastDrain.pushed), MAX_PRE_FRAMES))[i])]

\* C9 (amended): a drain hands to upstream.send, in push order, the last
\* min(k, 200) of the k frames pushed before it, up to the first send that
\* throws (all of them when none throws), and leaves the queue empty.
C9_DrainSendsPrefixOfLastPushed ==
    (bridge = "live" /\ lastDrain # NoDrain) =>
        LET k == Len(lastDrain.pushed)
            want == [i \in 1..Min(k, MAX_PRE_FRAMES) |->
                       Audio(LastN(lastDrain.pushed, Min(k, MAX_PRE_FRAMES))[i])]
        IN  /\ IsPrefix(lastDrain.sent, want)
            /\ (~lastDrain.threw => lastDrain.sent = want)
            /\ (lastEvt = "SettingsApplied" => preFrames = << >>)

\* C9 witness: a drain after the queue overflowed, with no throw.
C9_Witness ==
    /\ bridge = "live" /\ lastEvt = "SettingsApplied"
    /\ Len(lastDrain.pushed) > MAX_PRE_FRAMES
    /\ ~lastDrain.threw /\ Len(lastDrain.sent) = MAX_PRE_FRAMES

TeardownEvents == {"clientClose", "clientError", "upstreamClose"}

\* C11: in setupWebDemoLive (index.js) and createVoiceBridge (index.cjs), once
\* any teardown trigger has fired (client close, client error, upstream close,
\* 'stop'), and whatever fired after it, upstream close and client
\* close/terminate have each been invoked exactly once; before, not at all.
C11_SafeCloseOnce ==
    (bridge \in {"js", "cjs"} /\ hasKey) =>
        IF closed \/ lastEvt \in TeardownEvents
        THEN upCloseCalls = 1 /\ clientCloseCalls = 1
        ELSE upCloseCalls = 0 /\ clientCloseCalls = 0

\* C11 witness: the client's close was handled after the upstream's close.
C11_Witness ==
    /\ bridge = "js" /\ lastEvt = "clientClose" /\ upState = "CLOSED"
    /\ clientState = "CLOSED" /\ closed
    /\ upCloseCalls = 1 /\ clientCloseCalls = 1

\* C12 (as claimed): in createVoiceBridge (part_012) each socket's close is
\* invoked at most once per connection.
C12_EachSocketClosedOnce ==
    (bridge = "vb" /\ hasKey) => (upCloseCalls <= 1 /\ clientCloseCalls <= 1)

\* C13: in setupWebDemoLive (web-demo-live.cjs), once the upstream leg has
\* closed, errored or refused the handshake, close has been invoked on the
\* client socket; once the client leg has closed or errored, close has been
\* invoked on the upstream socket.
C13_NoHalfOpenBridge ==
    (bridge = "live" /\ hasKey) =>
        /\ (upState = "CLOSED" \/ upEvents # {} \/ lastEvt \in {"upstreamClose", "upstreamError"})
              => clientCloseCalls >= 1
        /\ (clientState = "CLOSED" \/ lastEvt \in {"clientClose", "clientError"})
              => upCloseCalls >= 1

\* C13 witness: mid-session, the client's socket closed and the handler has
\* invoked close on the open upstream.
C13_Witness ==
    /\ bridge = "live" /\ lastEvt = "clientClose" /\ settingsApplied
    /\ clientState = "CLOSED" /\ upState = "CLOSING" /\ upCloseCalls = 1
    /\ clientCloseCalls = 0

\* C14 (as claimed): with the credential missing, the connection handler of
\* web-demo-live.cjs, index.js and index.cjs sends the client one 'error'
\* message, closes its socket and creates no upstream socket.
C14_MissingKeyErrorAndClose ==
    (bridge \in {"live", "js", "cjs"} /\ ~hasKey /\ lastEvt = "connection") =>
        /\ nClientErrors = 1
        /\ clientCloseCalls = 1 /\ clientState = "CLOSING"
        /\ upState = "NONE" /\ upWire = << >>

\* C15: in setupWebDemoLive (web-demo-live.cjs), once the upstream handshake
\* was answered with a non-success HTTP response, the client has received
\* exactly one 'error' message and close was invoked on its socket, whatever
\* 'error'/'close' events the upstream socket emitted afterwards.
C15_OneErrorOnUnexpectedResponse ==
    (bridge = "live" /\ "unexpected-response" \in upEvents) =>
        /\ nClientErrors = 1
        /\ clientCloseCalls >= 1 /\ clientState # "OPEN"
        /\ upWire = << >>

\* C15 witness: after the refused handshake the upstream socket emitted
\* 'error' and then 'close'.
C15_Witness ==
    /\ bridge = "live" /\ upEvents = {"unexpected-response", "error"}
    /\ upState = "CLOSED" /\ lastEvt = "upstreamClose" /\ nClientErrors = 1

\* C16: in setupWebDemoLive (web-demo-live.cjs), the handler of an upstream
\* 'error' or 'close' that arrives mid-session (both sockets open) sends the
\* client an 'error' message and invokes close on the client socket.
C16_UpstreamFailureIsFatal ==
    [][(bridge = "live" /\ lastEvt' \in {"upstreamError", "upstreamClose"}
          /\ upState = "OPEN" /\ clientState = "OPEN")
        => (/\ clientOut' = << "error" >>
            /\ nClientErrors' = nClientErrors + 1
            /\ clientState' = "CLOSING"
            /\ clientCloseCalls' = clientCloseCalls + 1)]_vars

\* C16 witness: mid-session, the upstream's 'error' handler has sent the
\* error and started the client's close.
C16_Witness ==
    /\ bridge = "live" /\ lastEvt = "upstreamError" /\ settingsApplied
    /\ clientOut = << "error" >> /\ clientState = "CLOSING" /\ clientCloseCalls = 1

UnlistedTags == {"UserStartedSpeaking", "AgentStartedSpeaking"}

\* C18 (as claimed): an upstream JSON event of a type outside the mapping
\* table produces no client-visible message.
C18_UnlistedProducesNothing ==
    (bridge = "live" /\ lastEvt \in UnlistedTags) => clientOut = << >>

\* C18 (amended): an upstream JSON event of a type outside the mapping table
\* produces no normalized client message; the client gets the raw JSON text
\* of the event, as for every event that parses, and nothing else.
C18_UnlistedOnlyRelayedRaw ==
    (bridge = "live" /\ lastEvt \in UnlistedTags) => clientOut = << "raw" >>

\* C18 witness: a UserStartedSpeaking event was handled.
C18_Witness ==
    bridge = "live" /\ lastEvt = "UserStartedSpeaking" /\ clientState = "OPEN"

ClaimedTranscriptTags ==
    {"ConversationText", "Transcript", "UserTranscript", "UserResponse", "History",
     "AddUserMessage", "AddAssistantMessage", "PartialTranscript", "AgentTranscript",
     "AgentResponse"}

IsIn(x, q) == \E i \in DOMAIN q : q[i] = x

\* C19 (as claimed): each transcript tag of the table with non-empty text
\* yields a 'transcript' message, AgentWarning a warning, AgentError and Error
\* a message of type 'error'.
C19_EveryTagMapped ==
    bridge = "live" =>
        /\ lastEvt \in ClaimedTranscriptTags => IsIn("transcript", clientOut)
        /\ lastEvt = "AgentWarning" => IsIn("status.warning", clientOut)
        /\ lastEvt \in {"AgentError", "Error"} => IsIn("error", clientOut)

\* the byte ranges [off, off + len) of two buffers intersect
Overlaps(a, b) == a.off < b.off + b.len /\ b.off < a.off + a.len

\* C20 (as claimed): in setupWebDemoLive (web-demo-live.cjs, index.js) no
\* byte of a client text message reaches the upstream socket: every audio
\* frame on the upstream wire is made of bytes of binary messages only.
C20_ClientTextNeverUpstream ==
    bridge \in {"live", "js"} =>
        \A i \in DOMAIN upWire :
            upWire[i].kind = "audio" =>
                \A t \in textBufs : ~Overlaps(upWire[i], t)

\* C21 (as claimed): in the transcript branch of setupWebDemoLive (index.js,
\* part_011) the role sent to the client is 'Agent' whenever the lower-cased
\* role field contains 'agent' or 'assistant', and 'User' otherwise.
C21_RoleBucket ==
    (bridge = "js" /\ lastEvt = "transcript" /\ clientState = "OPEN") =>
        clientOut = << IF \/ includes(toLowerCase(lastIn.role), R_agent)
                          \/ includes(toLowerCase(lastIn.role), R_assistant)
                       THEN "transcript.Agent" ELSE "transcript.User" >>

\* C22 (as claimed): in setupWebDemoLive of index.js the handler that forwards
\* a transcript with role 'User' and non-empty text to the client has passed
\* the text to updateIntakeFromUserText: the call count grows and the text is
\* the last note of the record.
C22_UserTextReachesIntake ==
    [][(bridge = "js" /\ lastEvt' = "transcript" /\ clientOut' = << "transcript.User" >>)
        => (/\ nCalls' = nCalls + 1
            /\ Len(intake'.notes) = Len(intake.notes) + 1
            /\ intake'.notes[Len(intake'.notes)] = lastIn'.utt)]_vars

\* the extracted fields of the intake record of a bridge
IntakeFields(b) ==
    IF b = "js" THEN {"kind", "name", "phone", "email", "when", "city", "state"}
    ELSE {"client_type", "full_name", "phone", "email", "incident", "date", "location"}

\* C23: shadow intake is first-writer-wins per field: no call of
\* updateIntakeFromUserText (page.tsx, shadow-intake.cjs) changes a field that
\* is populated, and a call whose utterance holds a phone number while phone
\* is empty sets phone to the number extracted from that utterance.
C23_FirstWriterWins ==
    [][lastEvt' = "updateIntake" =>
         /\ \A f \in IntakeFields(bridge) : Truthy(intake[f]) => intake'[f] = intake[f]
         /\ (bridge = "vb" /\ ~Truthy(intake.phone) /\ Truthy(extractPhone(lastIn'.utt)))
               => intake'.phone = extractPhone(lastIn'.utt)
         /\ (bridge = "js" /\ ~Truthy(intake.phone) /\ Truthy(Shadow_phone(lastIn'.utt)))
               => intake'.phone = Shadow_phone(lastIn'.utt)]_vars

\* C23 witness: two utterances with a phone number were processed, and phone
\* is the number of the first.
C23_Witness ==
    /\ bridge = "vb"
    /\ intake.transcripts = << U_PhoneA, U_PhoneB >>
    /\ intake.phone = extractPhone(U_PhoneA)

\* C24: updateIntakeFromUserText (page.tsx) with an utterance equal to one of
\* the last 25 processed utterances leaves the whole record unchanged.
C24_DuplicateIgnored ==
    [][(bridge = "vb" /\ lastEvt' = "updateIntake"
          /\ \E i \in DOMAIN intake.transcripts :
               /\ i > Len(intake.transcripts) - RECENT_MAX
               /\ intake.transcripts[i] = lastIn'.utt)
        => intake' = intake]_vars

\* C24 witness: after more than 25 utterances were processed, the 25th newest
\* was repeated.
C24_Witness ==
    /\ bridge = "vb" /\ lastEvt = "updateIntake"
    /\ Len(intake.transcripts) > RECENT_MAX
    /\ lastIn.utt = intake.transcripts[Len(intake.transcripts) - (RECENT_MAX - 1)]

\* how many times 'intake_complete' was logged
CompleteLogs == Len(SelectSeq(logged, LAMBDA e : e = "intake_complete"))

\* C25: in createVoiceBridge of part_012 'intake_complete' is logged exactly
\* once on a connection whose record has become complete, whatever follows,
\* and not at all before.
C25_CompleteLoggedOnce ==
    bridge = "vb" => CompleteLogs = (IF isComplete(intake) THEN 1 ELSE 0)

\* C25 witness: the record became complete with the third utterance and a
\* fourth one was processed after it.
C25_Witness ==
    /\ bridge = "vb"
    /\ intake.transcripts = << U_Accident, U_Name, U_PhoneA, U_PhoneB >>
    /\ isComplete(intake)
    /\ CompleteLogs = 1

\* C26: on a connection of index.js or part_012 that created an upstream
\* socket, once teardown has begun, by whichever leg, an 'intake_final'
\* record is eventually logged.
C26_FinalSnapshotLogged ==
    (bridge \in {"js", "vb"} /\ upState # "NONE" /\ TeardownBegun)
        ~> IsIn("intake_final", logged)

\* C26 witness: the client leg closed first, and the final record was logged
\* when the upstream 'close' event followed.
C26_Witness ==
    /\ bridge = "js" /\ lastEvt = "upstreamClose" /\ clientState = "CLOSED"
    /\ logged = << "intake_final" >>

\* C27 (as claimed): in setupWebDemoLive of index.js every handler on a path
\* into closing, closed or failed (client close, client error, upstream
\* close, upstream error) leaves the keepalive interval timer cleared.
C27_KeepaliveClearedOnEveryPath ==
    [][(bridge = "js" /\ lastEvt' \in TeardownEvents \cup {"upstreamError"})
        => ~pingTimer']_vars

\* C27 (amended): every such handler leaves the upstream socket not OPEN, and
\* from then on the keepalive callback puts nothing on the upstream wire; the
\* timer is cleared by the handler of the upstream 'close' event, which
\* follows every teardown, and is never set again.
C27_KeepaliveSuspendedThenCleared ==
    /\ [][bridge = "js" =>
            /\ lastEvt' \in TeardownEvents \cup {"upstreamError"} => upState' # "OPEN"
            /\ (TeardownBegun /\ lastEvt' = "keepalive") => upWire' = upWire
            /\ lastEvt' = "upstreamClose" => ~pingTimer'
            /\ (upState = "CLOSED" /\ ~pingTimer) => ~pingTimer']_vars
    /\ ((bridge = "js" /\ upState # "NONE" /\ TeardownBegun) ~> ~pingTimer)

\* C27 witness: keepalives were sent, the client closed, and the upstream
\* 'close' handler then cleared the timer.
C27_Witness ==
    /\ bridge = "js" /\ lastEvt = "upstreamClose" /\ clientState = "CLOSED"
    /\ KeepAlivesOnWire > 0 /\ ~pingTimer

\* C28 (as claimed): in createVoiceBridge (part_012, index.cjs) the handler of
\* a client 'stop' message, of a client disconnect and of an upstream
\* disconnect each run safeClose, which calls close on the upstream socket
\* and on the client socket (in index.cjs: unless safeClose has run before).
C28_StopAndDisconnectsRunSafeClose ==
    [][(bridge \in {"vb", "cjs"} /\ lastEvt' \in {"stop", "clientClose", "upstreamClose"}
          /\ ~closed)
        => (/\ upCloseCalls' = upCloseCalls + 1
            /\ clientCloseCalls' = clientCloseCalls + 1)]_vars

\* C29 (as claimed): in setupWebDemoLive (web-demo-live.cjs) an upstream
\* socket does not stay CONNECTING for ever with the client left open: the
\* attempt is eventually treated as failed and close is called on the client.
C29_HandshakeTimesOut ==
    (bridge = "live" /\ upState = "CONNECTING")
        ~> (upState # "CONNECTING" \/ clientCloseCalls > 0 \/ clientState # "OPEN")

\* C30: in part_012 a heartbeat tick that finds the previous ping to the
\* client unanswered terminates the client socket.
C30_DeadClientTerminated ==
    [][(bridge = "vb" /\ lastEvt' = "heartbeatTick" /\ unansweredPings > 0)
        => (/\ clientCloseCalls' = clientCloseCalls + 1
            /\ clientState' = "CLOSING")]_vars

\* C30 witness: on an otherwise healthy connection a client with an
\* unanswered ping was terminated by the tick that followed.
C30_Witness ==
    /\ bridge = "vb" /\ lastEvt = "heartbeatTick"
    /\ unansweredPings > 0 /\ clientCloseCalls = 1 /\ clientState = "CLOSING"
    /\ upState = "OPEN" /\ upCloseCalls = 0


\* The utterances the record has taken in, in order
IntakeHeard == IF bridge = "js" THEN intake.notes ELSE intake.transcripts

\* C34 (as claimed): after 'My name is Jordan Smith' and then 'my phone is
\* 555-123-4567' have been ingested into a fresh record, the record's name is
\* 'Jordan Smith' and its phone is '555-123-4567', hyphenated (both intake
\* modules: the one embedded with the bridge of part_012, fields full_name
\* and phone, and src/lib/shadow-intake.cjs, fields name and phone).
C34_DialogueNameAndPhone ==
    IntakeHeard = << U_JordanName, U_JordanPhone >> =>
        /\ intake.phone = "555-123-4567"
        /\ IF bridge = "js" THEN intake.name = "Jordan Smith"
           ELSE intake.full_name = "Jordan Smith"

\* C40: in the intake module embedded with the bridge of part_012, once
\* isComplete(record) is true it is true after every later call of
\* updateIntakeFromUserText.
C40_CompleteIsStable ==
    [][(bridge = "vb" /\ isComplete(intake)) => isComplete(intake')]_vars

\* C40 witness: a call made on a complete record, with a text which is not a
\* repetition and from which no field can be extracted a second time
C40_Witness ==
    /\ bridge = "vb" /\ lastEvt = "updateIntake" /\ nCalls = MaxCalls
    /\ isComplete(intake)
    /\ Len(intake.transcripts) = MaxCalls
    /\ intake.transcripts[MaxCalls] = U_Existing


C36_NoFrameSentTwice ==
    bridge = "live" =>
        Cardinality({AudioOnWire[i].off : i \in DOMAIN AudioOnWire}) = Len(AudioOnWire)

\* C36 witness: a send threw in the middle of a drain, after some frames of
\* the queue had been sent; later frames went to the wire, and then a second
\* SettingsApplied was handled.
C36_Witness ==
    /\ bridge = "live" /\ lastEvt = "SettingsApplied" /\ upState = "OPEN"
    /\ lastDrain.threw /\ Len(lastDrain.sent) > 0
    /\ Len(lastDrain.sent) < Len(lastDrain.queued)
    /\ Len(AudioOnWire) > Len(lastDrain.sent)


\* C31: in the gated bridge (part_008), while the gate is closed after
\* SettingsApplied (settingsSent and settingsApplied true, allowMicToDG
\* false), the frames reassembled from a client binary message are
\* discarded: none is sent upstream and none is appended to preFrames.
C31_GatedFramesDiscarded ==
    [][(/\ bridge = "gate" /\ lastEvt' = "clientBinary"
        /\ settingsSent /\ settingsApplied /\ ~allowMicToDG)
        => (upWire' = upWire /\ preFrames' = preFrames)]_vars

\* C31 witness: a client binary message was handled with the gate closed and
\* frames were sliced off it; none is queued and none is on the wire.
C31_Witness ==
    /\ bridge = "gate" /\ lastEvt = "clientBinary" /\ upState = "OPEN"
    /\ settingsSent /\ settingsApplied /\ ~allowMicToDG
    /\ nFrames > 0 /\ preFrames = << >> /\ AudioOnWire = << >>

\* C32 (as claimed): in the gated bridge, between the processing of
\* SettingsApplied and the end of the greeting TTS (speaking going from true
\* to not speaking), no client mic frame is sent upstream: a handler that
\* puts a mic frame on the wire runs only once the greeting has ended.
C32_NoMicBeforeGreetingEnds ==
    [][(bridge = "gate" /\ settingsApplied /\ Len(AudioOnWire') > Len(AudioOnWire))
        => greetingEnded]_vars

\* the Settings messages the gated bridge has put on the wire
GateSettingsOnWire == {i \in DOMAIN upWire : upWire[i].kind = "Settings"}

\* C33 (as claimed): in the gated bridge, when the client has sent a 'start'
\* message with a valid voiceId, the Settings message on the upstream wire
\* carries the TTS voice of a voiceId the client asked for, whatever the order
\* of 'start', the upstream 'open' and 'Welcome'.
C33_SettingsCarriesStartVoice ==
    (bridge = "gate" /\ startVoices # {}) =>
        \A i \in GateSettingsOnWire :
            upWire[i].voice \in {resolveVoiceById(v) : v \in startVoices}

\* the first frame of the client's byte stream is in preFrames
FirstFrameQueued == \E i \in DOMAIN preFrames : preFrames[i] = Buf(0, BYTES_PER_FRAME)

\* C37 (as claimed): in the gated bridge a mic frame queued in preFrames
\* before SettingsApplied eventually leaves the queue (sent upstream or
\* evicted by the cap) once SettingsApplied has been processed; stated for
\* the first frame of the stream.
C37_QueuedFrameLeavesQueue ==
    (bridge = "gate" /\ settingsApplied /\ FirstFrameQueued) ~> ~FirstFrameQueued

\* C38 (as claimed): in the gated bridge, once safeClose has run no interval
\* timer of the connection (keepalive, meter, stateTimer, silenceTimer) is set.
C38_NoTimerAfterSafeClose ==
    (bridge = "gate" /\ closed) =>
        ~(pingTimer \/ meter \/ stateTimer \/ silenceTimer)

\* C39 (as claimed): in the gated bridge, the state timer firing as long as
\* it is set, once SettingsApplied has been processed on a connection that
\* stays open allowMicToDG eventually becomes true, with or without TTS
\* audio from the upstream.
C39_GateEventuallyOpens ==
    (bridge = "gate" /\ settingsApplied) ~> allowMicToDG

====
